---- MODULE Spec2Model ----
(***************************************************************************)
(* The LPRES admin backend as a state machine.  One step is one HTTP       *)
(* request taken through its route's middleware chain (auth gate, schema   *)
(* validator or upload filter, controller) against the external store,     *)
(* the image bucket and the mail provider.                                  *)
(***************************************************************************)
EXTENDS Integers, Sequences, FiniteSets, TLC

(* ------------------------------ bounds -------------------------------- *)
\* rows (ids / created_at ticks) the store issues in one behaviour
MaxIds == 3
\* files carried by one upload request
MaxFiles == 2
\* page sizes and offsets a list request asks for
MaxLimit == 2
\* rows created in the behaviours that walk every route with every credential
MaxGateRows == 1
\* rows created in the behaviours of the four create/read/update/delete resources
MaxCrudRows == 2
MaxRoundTripRows == 2
MaxSubscriberRows == 2
MaxCampaigns == 2
MaxValidateRows == 1
MaxListRows == 3
MaxUploads == 2
MaxFirings == 3
MaxConnections == 2
MaxSnapshotRows == 2

VARIABLES
    adminSecretKey,   \* config.adminSecretKey (process.env.ADMIN_SECRET_KEY)
    transporter,      \* EmailService.transporter: TRUE when created, FALSE when null
    db,               \* the external store: table name -> set of rows
    bucket,           \* object names stored in the bucket "images"
    nextId,           \* next fresh id / clock tick (uuid_generate_v4, uuidv4, NOW, Date.now)
    resp,             \* the response to the last request and what the request did
    deletedIds,       \* history: per table, the ids of the rows a DELETE removed
    pristine,         \* history: per created row id, the body it was created from
    limiter,          \* rateLimit's store: per client, the hits in its window
    bulk,             \* the run of sendBulkEmails in progress
    keepAlive,        \* KeepAliveService: its schedule and the firing in progress
    server,           \* the HTTP server and the process: listening, closing, exited
    subscribing,      \* the subscribe requests in progress, per connection
    listing           \* the list request in progress: its count query, then its data query

vars == <<adminSecretKey, transporter, db, bucket, nextId, resp, deletedIds, pristine, limiter, bulk, keepAlive, server, subscribing, listing>>

\* the tables of the schema
Tables == {"projects", "news", "complaints", "newsletter_templates",
           "newsletter_subscribers", "newsletter_campaigns"}

(* ------------------------------ values -------------------------------- *)
\* JavaScript undefined: a header that was not sent, an env variable not set
UNDEF == "undefined"
AdminSecret == "admin-secret"
AnonKey == "anon-key"

\* A header value: the key it carries, and whether it is prefixed 'Bearer '
Hdr(b, k) == [bearer |-> b, key |-> k]
NoHdr == Hdr(FALSE, UNDEF)

\* A string: its length and its content
S(n, t) == [len |-> n, tag |-> t]
\* a body field that was not sent
ABSENT == S(0, "absent")
NoImages == [n |-> -1, urls |-> TRUE]
Images(k) == [n |-> k, urls |-> TRUE]
NoId == -1
AbsentOf(fld) == CASE fld = "status" -> UNDEF
                   [] fld = "images" -> NoImages
                   [] fld = "id" -> NoId
                   [] OTHER -> ABSENT
\* !v of a string: not sent, or empty
Falsy(v) == v = ABSENT \/ v.len = 0
Present(b, fld) == b[fld] # AbsentOf(fld)

\* An id no row ever has (a uuid nobody was issued)
BogusId == 0

(* ------------------------------ config -------------------------------- *)
\* config.upload.allowedFileTypes default
allowedFileTypes == {"image/jpeg", "image/png", "image/webp", "image/jpg"}

(* --------------------------- middleware: auth -------------------------- *)
\* authHeader?.replace('Bearer ', '')
StripBearer(h) == Hdr(FALSE, h.key)

authenticateServiceRole(h) ==
    LET token == StripBearer(h.authorization)
        secret == Hdr(FALSE, adminSecretKey)
    IN  \/ token = secret
        \/ h.xApiKey = secret
        \/ h.xAdminSecret = secret

authenticatePublic(h) == TRUE

(* --------------------------- validators: zod --------------------------- *)
\* z.string().min(lo).max(hi): the names of the violations of one field
StrViolation(name, v, lo, hi) ==
    IF v = ABSENT \/ v.len < lo \/ v.len > hi THEN {name} ELSE {}

\* z.string().email(): a well-formed address is at least 6 characters long
EmailViolation(name, v) ==
    IF v = ABSENT \/ v.tag = "malformed" THEN {name} ELSE {}

\* z.array(z.string().url()).max(6).optional().default([])
ImagesViolation(v) ==
    IF v.n >= 0 /\ (v.n > 6 \/ ~v.urls) THEN {"images"} ELSE {}

\* a faulty variant: the title minimum is 5, not 10
createProjectSchema_loose(b) ==
    StrViolation("title", b.title, 5, 200)
    \cup StrViolation("description", b.description, 20, 10000)
    \cup StrViolation("location", b.location, 5, 200)
    \cup (IF b.status \in {"in progress", "completed", UNDEF} THEN {} ELSE {"status"})
    \cup ImagesViolation(b.images)

createProjectSchema(b) ==
    StrViolation("title", b.title, 10, 200)
    \cup StrViolation("description", b.description, 20, 10000)
    \cup StrViolation("location", b.location, 5, 200)
    \cup (IF b.status \in {"in progress", "completed", UNDEF} THEN {} ELSE {"status"})
    \cup ImagesViolation(b.images)

\* the object zod returns: defaults applied (status, images)
createProjectParsed(b) ==
    [b EXCEPT !.status = IF @ = UNDEF THEN "in progress" ELSE @,
              !.images = IF @ = NoImages THEN Images(0) ELSE @]

\* createProjectSchema.partial(): every field optional, no default applied
updateProjectSchema(b) ==
    (IF b.title = ABSENT THEN {} ELSE StrViolation("title", b.title, 10, 200))
    \cup (IF b.description = ABSENT THEN {}
          ELSE StrViolation("description", b.description, 20, 10000))
    \cup (IF b.location = ABSENT THEN {} ELSE StrViolation("location", b.location, 5, 200))
    \cup (IF b.status \in {"in progress", "completed", UNDEF} THEN {} ELSE {"status"})
    \cup ImagesViolation(b.images)

\* z.string().datetime().optional()
DatetimeViolation(name, v) ==
    IF v # ABSENT /\ v.tag = "malformed" THEN {name} ELSE {}

createNewsSchema(b) ==
    StrViolation("title", b.title, 10, 200)
    \cup StrViolation("details", b.details, 20, 10000)
    \cup StrViolation("event", b.event, 10, 200)
    \cup StrViolation("location", b.location, 5, 200)
    \cup DatetimeViolation("published_at", b.published_at)
    \cup ImagesViolation(b.images)

createNewsParsed(b) == [b EXCEPT !.images = IF @ = NoImages THEN Images(0) ELSE @]

updateNewsSchema(b) ==
    (IF b.title = ABSENT THEN {} ELSE StrViolation("title", b.title, 10, 200))
    \cup (IF b.details = ABSENT THEN {} ELSE StrViolation("details", b.details, 20, 10000))
    \cup (IF b.event = ABSENT THEN {} ELSE StrViolation("event", b.event, 10, 200))
    \cup (IF b.location = ABSENT THEN {} ELSE StrViolation("location", b.location, 5, 200))
    \cup DatetimeViolation("published_at", b.published_at)
    \cup ImagesViolation(b.images)

createComplaintSchema(b) ==
    StrViolation("name", b.name, 2, 100)
    \cup EmailViolation("email", b.email) \cup StrViolation("email", b.email, 5, 100)
    \cup StrViolation("subject", b.subject, 5, 200)
    \cup StrViolation("description", b.description, 10, 2000)

subscribeSchema(b) ==
    EmailViolation("email", b.email) \cup StrViolation("email", b.email, 5, 100)

unsubscribeSchema(b) == EmailViolation("email", b.email)

(* ------------------------- middleware: errors -------------------------- *)
\* new AppError(message, statusCode); a plain Error carries no statusCode
AppError(code) == [statusCode |-> code]
PlainError == [statusCode |-> 0]

\* the Edge error handler: the status the error carries, else 500
errorHandler(err) == IF err.statusCode # 0 THEN err.statusCode ELSE 500

(* ------------------------------ the store ------------------------------ *)
\* what a supabase query resolves to: { data, error }
Ok(rows) == [data |-> rows, error |-> "none"]
Failed(code) == [data |-> {}, error |-> code]

\* a store call that does not get through (network, outage)
Unavailable == Failed("unavailable")

\* .single(): exactly one row, else PGRST116 and no data
single(rows) == IF Cardinality(rows) = 1 THEN Ok(rows) ELSE Failed("PGRST116")

\* .eq('id', id)
eqId(t, id) == {r \in db[t] : r.id = id}

\* ids a caller can name: every id issued so far, and one that was never issued
KnownIds == 0 .. (nextId - 1)

\* the instant a date-time string names
Instant(v) == CASE v.tag = "2024-01-01T00:00:00Z" -> 1
                [] v.tag = "2025-01-01T00:00:00Z" -> 2
                [] OTHER -> 0

OrderKey(r, col) == IF col = "published_at" THEN Instant(r.published_at) ELSE r[col]

\* .order(col, { ascending: false }) of a set of rows, as a sequence
RECURSIVE orderDesc(_, _)
orderDesc(rows, col) ==
    IF rows = {} THEN <<>>
    ELSE LET top == CHOOSE r \in rows : \A q \in rows : OrderKey(q, col) <= OrderKey(r, col)
         IN  <<top>> \o orderDesc(rows \ {top}, col)

\* .range(from, to) then .limit(n) on an ordered result
range(seq, from, to) ==
    [i \in 1 .. (IF to < from THEN 0
                 ELSE IF Len(seq) - from < 0 THEN 0
                 ELSE IF to - from + 1 < Len(seq) - from THEN to - from + 1
                 ELSE Len(seq) - from) |-> seq[from + i]]

limit(seq, n) == [i \in 1 .. (IF n < Len(seq) THEN n ELSE Len(seq)) |-> seq[i]]

(* ------------------------------ responses ------------------------------ *)
\* the response to a request, and a record of what the request was and did
Req(route, h, id, body) ==
    [route |-> route, hdrs |-> h, id |-> id, body |-> body,
     status |-> 0, ran |-> FALSE, fault |-> 0,
     data |-> {}, page |-> <<>>, count |-> 0, errors |-> {},
     provider |-> [reachable |-> TRUE, rejects |-> {}],
     attempted |-> {}, rejected |-> {}]

NoRequest == Req("none", [authorization |-> NoHdr, xApiKey |-> NoHdr, xAdminSecret |-> NoHdr],
                 BogusId, ABSENT)

\* the request ends with `status`; nothing else changes
Reply(req, status) ==
    /\ resp' = [req EXCEPT !.status = status]
    /\ UNCHANGED <<adminSecretKey, transporter, db, bucket, nextId, deletedIds, pristine, limiter, bulk, keepAlive, server, subscribing, listing>>

\* the controller ran and the request ends with `status`; nothing else changes
Ran(req, f, status) == Reply([req EXCEPT !.ran = TRUE, !.fault = f], status)

\* res.status(401) of authenticateServiceRole
Unauthorized(req) == Reply(req, 401)

\* validate(schema): 400 listing every violation, the controller is not called
Invalid(req, violations) == Reply([req EXCEPT !.errors = violations], 400)

\* the controller ran and answers `status` with rows in `data`
RanData(req, f, status, rows) ==
    Reply([req EXCEPT !.ran = TRUE, !.fault = f, !.data = rows], status)

\* history: the ids whose row is as it was posted
Forget(id) == [i \in (DOMAIN pristine) \ {id} |-> pristine[i]]

(* --------------------------- store: row writes -------------------------- *)
\* .insert(body).select().single(): the store assigns id and created_at and
\* answers the inserted row; `refused`: the call does not get through, or the row
\* breaks a constraint of the schema
insert(req, t, body, refused, f, status, track) ==
    IF refused THEN Ran(req, f, errorHandler(AppError(400)))
    ELSE /\ nextId <= MaxIds
         /\ LET row == [id |-> nextId, created_at |-> nextId] @@ body
            IN  /\ db' = [db EXCEPT ![t] = @ \cup {row}]
                /\ resp' = [req EXCEPT !.ran = TRUE, !.fault = f, !.data = {row},
                                       !.status = status]
         /\ nextId' = nextId + 1
         /\ pristine' = IF track THEN (nextId :> req.body) @@ pristine ELSE pristine
         /\ UNCHANGED <<adminSecretKey, transporter, bucket, deletedIds, limiter, bulk, keepAlive, server, subscribing, listing>>

\* the row with the columns of `body` that were sent written over it
patch(r, body) ==
    [fld \in DOMAIN r |->
        IF fld \in DOMAIN body /\ Present(body, fld) THEN body[fld] ELSE r[fld]]

\* .update(body).eq('id', id).select().single(), then the controller's two checks:
\* `if (error) throw 400` comes first, `if (!data) throw 404` second
update(req, t, f) ==
    LET matched == eqId(t, req.id)
        patched == {patch(r, req.body) : r \in matched}
        \* the primary key: a row may not take the id of another row
        duplicate == \E r \in patched : r.id # req.id /\ eqId(t, r.id) # {}
        q == IF f = 1 THEN Unavailable
             ELSE IF duplicate THEN Failed("23505")
             ELSE single(patched)
    IN  IF q.error # "none" THEN Ran(req, f, errorHandler(AppError(400)))
        ELSE IF q.data = {} THEN Ran(req, f, errorHandler(AppError(404)))
        ELSE /\ db' = [db EXCEPT ![t] = (@ \ matched) \cup q.data]
             /\ resp' = [req EXCEPT !.ran = TRUE, !.fault = f, !.data = q.data,
                                    !.status = 200]
             /\ pristine' = Forget(req.id)
             /\ UNCHANGED <<adminSecretKey, transporter, bucket, nextId, deletedIds, limiter, bulk, keepAlive, server, subscribing, listing>>

\* .delete().eq('id', id): no error when no row matches
delete(req, t, f) ==
    IF f = 1 THEN Ran(req, f, errorHandler(AppError(400)))
    ELSE /\ db' = [db EXCEPT ![t] = @ \ eqId(t, req.id)]
         /\ resp' = [req EXCEPT !.ran = TRUE, !.fault = f, !.status = 200]
         /\ deletedIds' = [deletedIds EXCEPT ![t] = @ \cup {r.id : r \in eqId(t, req.id)}]
         /\ pristine' = Forget(req.id)
         /\ UNCHANGED <<adminSecretKey, transporter, bucket, nextId, limiter, bulk, keepAlive, server, subscribing, listing>>

\* .select('*').eq('id', id).single(), then `if (error || !data) throw 404`
getById(req, t, f) ==
    LET q == IF f = 1 THEN Unavailable ELSE single(eqId(t, req.id))
    IN  IF q.error # "none" \/ q.data = {} THEN Ran(req, f, errorHandler(AppError(404)))
        ELSE RanData(req, f, 200, q.data)

\* const { limit = 50, offset = 0 } = req.query
\* Number(v) of a query-string value written in decimal digits
Number(v) == CHOOSE n \in 0..MaxLimit : ToString(n) = v

\* const { limit = 50, offset = 0 } = req.query
QLimit(q) == IF q.limit = UNDEF THEN 50 ELSE Number(q.limit)
QOffset(q) == IF q.offset = UNDEF THEN 0 ELSE Number(q.offset)

\* the page .order(col desc).range(offset, offset + limit - 1).limit(limit) answers
pageOf(rows, col, q) ==
    limit(range(orderDesc(rows, col), QOffset(q), QOffset(q) + QLimit(q) - 1), QLimit(q))

\* a list response: count and data
RanList(req, f, n, page) ==
    Reply([req EXCEPT !.ran = TRUE, !.fault = f, !.count = n, !.page = page], 200)

(* ------------------------- controllers: projects ------------------------ *)
\* a faulty variant: count is the length of the page (data.length)
getAllProjects_pagecount(req, f) ==
    LET status == req.body.status
        matching == IF status # UNDEF THEN {r \in db["projects"] : r.status = status}
                    ELSE db["projects"]
        page == pageOf(matching, "created_at", req.body)
    IN  IF f \in {1, 2} THEN Ran(req, f, errorHandler(AppError(400)))
        ELSE RanList(req, f, Len(page), page)

getAllProjects(req, f) ==
    LET status == req.body.status
        \* the count query and the data query carry the same filter
        matching == IF status # UNDEF THEN {r \in db["projects"] : r.status = status}
                    ELSE db["projects"]
        totalCount == Cardinality(matching)
    IN  IF f = 1 THEN Ran(req, f, errorHandler(AppError(400)))
        ELSE IF f = 2 THEN Ran(req, f, errorHandler(AppError(400)))
        ELSE RanList(req, f, totalCount, pageOf(matching, "created_at", req.body))

getProjectById(req, f) == getById(req, "projects", f)

\* a faulty variant: the title stored is not the title sent
createProject_untitled(req, projectData, f) ==
    insert(req, "projects", [projectData EXCEPT !.title = S(10, "x")], f = 1, f, 201, TRUE)

createProject(req, projectData, f) ==
    insert(req, "projects", projectData, f = 1, f, 201, TRUE)

updateProject(req, f) == update(req, "projects", f)

deleteProject(req, f) == delete(req, "projects", f)

(* -------------------------- middleware: upload -------------------------- *)
\* multer's fileFilter: cb(null, true), or cb(new Error('Invalid file type...'))
fileFilter(file) == file.mimetype \in allowedFileTypes

\* upload.array('images', 6) with limits.fileSize: the error multer hands to
\* next(), or "none".  Neither multer's errors nor fileFilter's carry a statusCode
upload(files) ==
    IF Len(files) > 6 THEN "LIMIT_UNEXPECTED_FILE"
    ELSE IF \E i \in DOMAIN files : ~fileFilter(files[i]) THEN "Invalid file type"
    ELSE IF \E i \in DOMAIN files : files[i].oversize THEN "LIMIT_FILE_SIZE"
    ELSE "none"

\* `${prefix}/${Date.now()}-${file.originalname}`
fileName(prefix, file) == <<prefix, nextId, file.originalname>>

\* uploadImages with a rollback: when an upload of the request is refused, the
\* objects of the request are removed again
uploadImages_rollback(req, prefix, failed) ==
    LET files == req.body
        refused == {i \in DOMAIN files :
                       \/ i \in failed
                       \/ <<prefix, nextId, files[i].originalname>> \in bucket
                       \/ \E j \in 1 .. (i - 1) :
                             j \notin failed /\ files[j].originalname = files[i].originalname}
        stored == {<<prefix, nextId, files[i].originalname>> : i \in (DOMAIN files) \ refused}
    IN  IF Len(files) = 0 THEN Reply([req EXCEPT !.ran = TRUE], 400)
        ELSE /\ nextId <= MaxIds
             /\ nextId' = nextId + 1
             /\ bucket' = IF refused = {} THEN bucket \cup stored ELSE bucket
             /\ resp' = [req EXCEPT !.ran = TRUE, !.data = stored,
                                    !.fault = IF refused = {} THEN 0 ELSE 1,
                                    !.status = IF refused = {} THEN 200 ELSE 400]
             /\ UNCHANGED <<adminSecretKey, transporter, db, deletedIds, pristine, limiter, bulk, keepAlive, server, subscribing, listing>>

\* files.map(async upload) under Promise.all: every upload is issued; `failed`
\* are the uploads the bucket refuses; upsert: false refuses a name already stored
uploadImages(req, prefix, failed) ==
    LET files == req.body
        refused == {i \in DOMAIN files :
                       \/ i \in failed
                       \/ fileName(prefix, files[i]) \in bucket
                       \/ \E j \in 1 .. (i - 1) :
                             j \notin failed /\ files[j].originalname = files[i].originalname}
        stored == {fileName(prefix, files[i]) : i \in (DOMAIN files) \ refused}
    IN  IF Len(files) = 0 THEN Ran(req, 0, errorHandler(AppError(400)))
        ELSE /\ nextId <= MaxIds
             /\ nextId' = nextId + 1
             /\ bucket' = bucket \cup stored
             /\ resp' = [req EXCEPT !.ran = TRUE, !.data = stored,
                                    !.fault = IF refused = {} THEN 0 ELSE 1,
                                    !.status = IF refused = {} THEN 200
                                               ELSE errorHandler(AppError(400))]
             /\ UNCHANGED <<adminSecretKey, transporter, db, deletedIds, pristine, limiter, bulk, keepAlive, server, subscribing, listing>>

\* the upload middleware between the gate and the controller
Uploading(req, prefix, failed) ==
    IF upload(req.body) # "none" THEN Reply(req, errorHandler(PlainError))
    ELSE uploadImages(req, prefix, failed)

(* ---------------------------- routes: projects -------------------------- *)
GET_projects(h, query, f) ==
    LET req == Req("GET /projects", h, BogusId, query)
    IN  IF ~authenticatePublic(h) THEN Unauthorized(req) ELSE getAllProjects(req, f)

GET_projects_id(h, id, f) ==
    LET req == Req("GET /projects/:id", h, id, ABSENT)
    IN  IF ~authenticatePublic(h) THEN Unauthorized(req) ELSE getProjectById(req, f)

POST_projects(h, body, f) ==
    LET req == Req("POST /projects", h, BogusId, body)
    IN  IF ~authenticateServiceRole(h) THEN Unauthorized(req)
        ELSE IF createProjectSchema(body) # {} THEN Invalid(req, createProjectSchema(body))
        ELSE createProject(req, createProjectParsed(body), f)

PUT_projects_id(h, id, body, f) ==
    LET req == Req("PUT /projects/:id", h, id, body)
    IN  IF ~authenticateServiceRole(h) THEN Unauthorized(req)
        ELSE IF updateProjectSchema(body) # {} THEN Invalid(req, updateProjectSchema(body))
        ELSE updateProject(req, f)

DELETE_projects_id(h, id, f) ==
    LET req == Req("DELETE /projects/:id", h, id, ABSENT)
    IN  IF ~authenticateServiceRole(h) THEN Unauthorized(req) ELSE deleteProject(req, f)

POST_projects_upload(h, files, failed) ==
    LET req == Req("POST /projects/upload", h, BogusId, files)
    IN  IF ~authenticateServiceRole(h) THEN Unauthorized(req)
        ELSE Uploading(req, "projects", failed)

(* --------------------------- controllers: news -------------------------- *)
getAllNews(req, f) ==
    LET totalCount == Cardinality(db["news"])
    IN  IF f = 1 THEN Ran(req, f, errorHandler(AppError(400)))
        ELSE IF f = 2 THEN Ran(req, f, errorHandler(AppError(400)))
        ELSE RanList(req, f, totalCount, pageOf(db["news"], "published_at", req.body))

getNewsById(req, f) == getById(req, "news", f)

\* news.published_at is NOT NULL and has no default
createNews(req, newsData, f) ==
    insert(req, "news", newsData, f = 1 \/ newsData.published_at = ABSENT, f, 201, TRUE)

updateNews(req, f) == update(req, "news", f)

deleteNews(req, f) == delete(req, "news", f)

(* ------------------------------ routes: news ---------------------------- *)
GET_news(h, query, f) ==
    LET req == Req("GET /news", h, BogusId, query)
    IN  IF ~authenticatePublic(h) THEN Unauthorized(req) ELSE getAllNews(req, f)

GET_news_id(h, id, f) ==
    LET req == Req("GET /news/:id", h, id, ABSENT)
    IN  IF ~authenticatePublic(h) THEN Unauthorized(req) ELSE getNewsById(req, f)

\* POST /news with the validator registered before the gate
POST_news_validateFirst(h, body, f) ==
    LET req == Req("POST /news", h, BogusId, body)
    IN  IF createNewsSchema(body) # {} THEN Invalid(req, createNewsSchema(body))
        ELSE IF ~authenticateServiceRole(h) THEN Unauthorized(req)
        ELSE createNews(req, createNewsParsed(body), f)

POST_news(h, body, f) ==
    LET req == Req("POST /news", h, BogusId, body)
    IN  IF ~authenticateServiceRole(h) THEN Unauthorized(req)
        ELSE IF createNewsSchema(body) # {} THEN Invalid(req, createNewsSchema(body))
        ELSE createNews(req, createNewsParsed(body), f)

PUT_news_id(h, id, body, f) ==
    LET req == Req("PUT /news/:id", h, id, body)
    IN  IF ~authenticateServiceRole(h) THEN Unauthorized(req)
        ELSE IF updateNewsSchema(body) # {} THEN Invalid(req, updateNewsSchema(body))
        ELSE updateNews(req, f)

DELETE_news_id(h, id, f) ==
    LET req == Req("DELETE /news/:id", h, id, ABSENT)
    IN  IF ~authenticateServiceRole(h) THEN Unauthorized(req) ELSE deleteNews(req, f)

POST_news_upload(h, files, failed) ==
    LET req == Req("POST /news/upload", h, BogusId, files)
    IN  IF ~authenticateServiceRole(h) THEN Unauthorized(req)
        ELSE Uploading(req, "news", failed)

(* ------------------------ controllers: complaints ----------------------- *)
getAllComplaints(req, f) ==
    LET totalCount == Cardinality(db["complaints"])
    IN  IF f = 1 THEN Ran(req, f, errorHandler(AppError(400)))
        ELSE IF f = 2 THEN Ran(req, f, errorHandler(AppError(400)))
        ELSE RanList(req, f, totalCount, pageOf(db["complaints"], "created_at", req.body))

getComplaintById(req, f) == getById(req, "complaints", f)

createComplaint(req, complaintData, f) ==
    insert(req, "complaints", complaintData, f = 1, f, 201, FALSE)

deleteComplaint(req, f) == delete(req, "complaints", f)

(* --------------------------- routes: complaints ------------------------- *)
GET_complaints(h, query, f) ==
    LET req == Req("GET /complaints", h, BogusId, query)
    IN  IF ~authenticateServiceRole(h) THEN Unauthorized(req) ELSE getAllComplaints(req, f)

GET_complaints_id(h, id, f) ==
    LET req == Req("GET /complaints/:id", h, id, ABSENT)
    IN  IF ~authenticateServiceRole(h) THEN Unauthorized(req) ELSE getComplaintById(req, f)

POST_complaints(h, body, f) ==
    LET req == Req("POST /complaints", h, BogusId, body)
    IN  IF ~authenticatePublic(h) THEN Unauthorized(req)
        ELSE IF createComplaintSchema(body) # {} THEN Invalid(req, createComplaintSchema(body))
        ELSE createComplaint(req, body, f)

DELETE_complaints_id(h, id, f) ==
    LET req == Req("DELETE /complaints/:id", h, id, ABSENT)
    IN  IF ~authenticateServiceRole(h) THEN Unauthorized(req) ELSE deleteComplaint(req, f)

(* ------------------------ controllers: subscribers ---------------------- *)
\* .eq('email', email)
eqEmail(email) == {r \in db["newsletter_subscribers"] : r.email = email}

\* query.subscribed: 'true', 'false' or not sent
getAllSubscribers(req, f) ==
    LET subscribed == req.body.subscribed
        rows == IF subscribed # UNDEF
                THEN {r \in db["newsletter_subscribers"] : r.subscribed = (subscribed = "true")}
                ELSE db["newsletter_subscribers"]
        page == pageOf(rows, "created_at", req.body)
    IN  IF f = 1 THEN Ran(req, f, errorHandler(AppError(400)))
        ELSE RanList(req, f, Len(page), page)

\* const { subscribed = 'true' } = req.query
getSubscriberCount(req, f) ==
    LET subscribed == IF req.body.subscribed = UNDEF THEN "true" ELSE req.body.subscribed
        rows == {r \in db["newsletter_subscribers"] : r.subscribed = (subscribed = "true")}
    IN  IF f = 1 THEN Ran(req, f, errorHandler(AppError(400)))
        ELSE RanList(req, f, Cardinality(rows), <<>>)

\* .update({ subscribed: v }).eq('email', email).select().single()
setSubscribed(req, f, q, status) ==
    /\ db' = [db EXCEPT !["newsletter_subscribers"] = (@ \ eqEmail(req.body.email)) \cup q.data]
    /\ resp' = [req EXCEPT !.ran = TRUE, !.fault = f, !.data = q.data, !.status = status]
    /\ UNCHANGED <<adminSecretKey, transporter, bucket, nextId, deletedIds, pristine, limiter, bulk, keepAlive, server, subscribing, listing>>

\* a faulty variant: no lookup of the existing row before the insert
subscribe_blind(req, f) ==
    LET email == req.body.email
    IN  insert(req, "newsletter_subscribers", [email |-> email, subscribed |-> TRUE],
               f = 2, f, 201, FALSE)

subscribe(req, f) ==
    LET email == req.body.email
        \* the lookup's error is not read: a failed lookup is "no such row"
        existing == (IF f = 1 THEN Unavailable ELSE single(eqEmail(email))).data
        q == IF f = 2 THEN Unavailable
             ELSE single({[r EXCEPT !.subscribed = TRUE] : r \in eqEmail(email)})
    IN  IF existing # {}
        THEN IF \E r \in existing : r.subscribed
             THEN Ran(req, f, errorHandler(AppError(400)))
             ELSE IF q.error # "none" THEN Ran(req, f, errorHandler(AppError(400)))
             ELSE setSubscribed(req, f, q, 200)
        \* newsletter_subscribers.email is UNIQUE
        ELSE insert(req, "newsletter_subscribers", [email |-> email, subscribed |-> TRUE],
                    f = 2 \/ eqEmail(email) # {}, f, 201, FALSE)

\* a faulty variant: only a subscribed row is matched, a repeated call finds none
unsubscribe_once(req, f) ==
    LET q == IF f = 1 THEN Unavailable
             ELSE single({[r EXCEPT !.subscribed = FALSE] :
                             r \in {x \in eqEmail(req.body.email) : x.subscribed}})
    IN  IF q.error # "none" \/ q.data = {} THEN Ran(req, f, errorHandler(AppError(404)))
        ELSE setSubscribed(req, f, q, 200)

unsubscribe(req, f) ==
    LET q == IF f = 1 THEN Unavailable
             ELSE single({[r EXCEPT !.subscribed = FALSE] : r \in eqEmail(req.body.email)})
    IN  IF q.error # "none" \/ q.data = {} THEN Ran(req, f, errorHandler(AppError(404)))
        ELSE setSubscribed(req, f, q, 200)

(* --------------------------- routes: subscribers ------------------------ *)
GET_subscribers(h, query, f) ==
    LET req == Req("GET /subscribers", h, BogusId, query)
    IN  IF ~authenticateServiceRole(h) THEN Unauthorized(req) ELSE getAllSubscribers(req, f)

GET_subscribers_count(h, query, f) ==
    LET req == Req("GET /subscribers/count", h, BogusId, query)
    IN  IF ~authenticatePublic(h) THEN Unauthorized(req) ELSE getSubscriberCount(req, f)

POST_subscribers_subscribe(h, body, f) ==
    LET req == Req("POST /subscribers/subscribe", h, BogusId, body)
    IN  IF ~authenticatePublic(h) THEN Unauthorized(req)
        ELSE IF subscribeSchema(body) # {} THEN Invalid(req, subscribeSchema(body))
        ELSE subscribe(req, f)

POST_subscribers_unsubscribe(h, body, f) ==
    LET req == Req("POST /subscribers/unsubscribe", h, BogusId, body)
    IN  IF ~authenticatePublic(h) THEN Unauthorized(req)
        ELSE IF unsubscribeSchema(body) # {} THEN Invalid(req, unsubscribeSchema(body))
        ELSE unsubscribe(req, f)

(* ------------------------ subscribe, step by step ----------------------- *)
\* subscribe awaits the store twice: the lookup, then the update or the insert;
\* between the two another request's handler may run.  `pc`: the call the
\* request awaits; `existing`: the row its lookup found; `status`: its answer
Slots == {1, 2}
NoSubscribe == [pc |-> "idle", email |-> ABSENT, existing |-> {}, status |-> 0]
NoSubscribes == [i \in Slots |-> NoSubscribe]

\* a validated request arrives at the controller, which issues the lookup
subscribeCalled(i, email) ==
    /\ subscribing[i].pc = "idle"
    /\ subscribing' = [subscribing EXCEPT ![i] = [NoSubscribe EXCEPT !.pc = "lookup",
                                                                     !.email = email]]
    /\ UNCHANGED <<adminSecretKey, transporter, db, bucket, nextId, resp, deletedIds, pristine, limiter, bulk, keepAlive, server, listing>>

\* the lookup resolves: a row that is subscribed is answered 400 at once
lookupSettled(i) ==
    LET s == subscribing[i]
        existing == single(eqEmail(s.email)).data
    IN  /\ s.pc = "lookup"
        /\ subscribing' =
              [subscribing EXCEPT ![i] =
                  IF \E r \in existing : r.subscribed
                  THEN [s EXCEPT !.pc = "done", !.existing = existing,
                                 !.status = errorHandler(AppError(400))]
                  ELSE [s EXCEPT !.pc = "write", !.existing = existing]]
        /\ UNCHANGED <<adminSecretKey, transporter, db, bucket, nextId, resp, deletedIds, pristine, limiter, bulk, keepAlive, server, listing>>

\* the update of the row found, or the insert of a new row, resolves
writeSettled(i) ==
    LET s == subscribing[i]
        q == single({[r EXCEPT !.subscribed = TRUE] : r \in eqEmail(s.email)})
        row == [id |-> nextId, created_at |-> nextId, email |-> s.email, subscribed |-> TRUE]
        answered(status) == [subscribing EXCEPT ![i] = [s EXCEPT !.pc = "done",
                                                                !.status = status]]
    IN  /\ s.pc = "write"
        /\ IF s.existing # {}
           THEN IF q.error # "none"
                THEN /\ subscribing' = answered(errorHandler(AppError(400)))
                     /\ UNCHANGED <<db, nextId>>
                ELSE /\ db' = [db EXCEPT !["newsletter_subscribers"] =
                                             (@ \ eqEmail(s.email)) \cup q.data]
                     /\ subscribing' = answered(200)
                     /\ UNCHANGED nextId
           \* newsletter_subscribers.email is UNIQUE
           ELSE IF eqEmail(s.email) # {}
                THEN /\ subscribing' = answered(errorHandler(AppError(400)))
                     /\ UNCHANGED <<db, nextId>>
                ELSE /\ nextId <= MaxIds
                     /\ db' = [db EXCEPT !["newsletter_subscribers"] = @ \cup {row}]
                     /\ nextId' = nextId + 1
                     /\ subscribing' = answered(201)
        /\ UNCHANGED <<adminSecretKey, transporter, bucket, resp, deletedIds, pristine, limiter, bulk, keepAlive, server, listing>>

\* the answers are sent and the connections are free again
answersSent ==
    /\ \A i \in Slots : subscribing[i].pc \in {"idle", "done"}
    /\ \E i \in Slots : subscribing[i].pc = "done"
    /\ subscribing' = NoSubscribes
    /\ UNCHANGED <<adminSecretKey, transporter, db, bucket, nextId, resp, deletedIds, pristine, limiter, bulk, keepAlive, server, listing>>

(* ---------------------- list handlers, step by step --------------------- *)
\* getAllProjects, getAllNews and getAllComplaints await the store twice: the
\* count query, then the data query; between the two another request's handler
\* may write the table.  `snapshots`: the table as each of the two queries saw it
NoListing ==
    [pc |-> "idle", table |-> "projects",
     query |-> [status |-> UNDEF, subscribed |-> UNDEF, limit |-> UNDEF, offset |-> UNDEF],
     totalCount |-> 0, page |-> <<>>, snapshots |-> {}]

\* only getAllProjects filters, by status
filtered(t, rows, q) ==
    IF t = "projects" /\ q.status # UNDEF THEN {r \in rows : r.status = q.status} ELSE rows

\* .order('created_at' | 'published_at', { ascending: false })
orderOf(t) == IF t = "news" THEN "published_at" ELSE "created_at"

\* the handler of table t is called and issues the count query
listCalled(t, q) ==
    /\ listing.pc = "idle"
    /\ listing' = [NoListing EXCEPT !.pc = "count", !.table = t, !.query = q]
    /\ UNCHANGED <<adminSecretKey, transporter, db, bucket, nextId, resp, deletedIds, pristine, limiter, bulk, keepAlive, server, subscribing>>

\* select('*', { count: 'exact', head: true }) resolves
countSettled ==
    /\ listing.pc = "count"
    /\ listing' = [listing EXCEPT
                      !.pc = "data",
                      !.totalCount = Cardinality(filtered(listing.table, db[listing.table],
                                                          listing.query)),
                      !.snapshots = @ \cup {db[listing.table]}]
    /\ UNCHANGED <<adminSecretKey, transporter, db, bucket, nextId, resp, deletedIds, pristine, limiter, bulk, keepAlive, server, subscribing>>

\* select('*').order().range().limit() resolves: count and data are answered
dataSettled ==
    /\ listing.pc = "data"
    /\ listing' = [listing EXCEPT
                      !.pc = "done",
                      !.page = pageOf(filtered(listing.table, db[listing.table], listing.query),
                                      orderOf(listing.table), listing.query),
                      !.snapshots = @ \cup {db[listing.table]}]
    /\ UNCHANGED <<adminSecretKey, transporter, db, bucket, nextId, resp, deletedIds, pristine, limiter, bulk, keepAlive, server, subscribing>>

\* the response is sent
listSent ==
    /\ listing.pc = "done"
    /\ listing' = NoListing
    /\ UNCHANGED <<adminSecretKey, transporter, db, bucket, nextId, resp, deletedIds, pristine, limiter, bulk, keepAlive, server, subscribing>>

(* ---------------------------- services: email --------------------------- *)
\* the batch size of sendBulkEmails
batchSize == 50

\* sendEmail resolves true, or throws: the service is not configured, or the
\* provider rejects the message (`rejects`: the addresses it rejects)
sendEmail(to, rejects) == transporter /\ to \notin rejects

\* one batch: every send of the batch is awaited, a throw is counted, not rethrown
RECURSIVE sendBatch(_, _, _)
sendBatch(batch, rejects, results) ==
    IF batch = <<>> THEN results
    ELSE sendBatch(Tail(batch), rejects,
                   IF sendEmail(Head(batch), rejects)
                   THEN [results EXCEPT !.success = @ + 1]
                   ELSE [results EXCEPT !.failed = @ + 1,
                                        !.errors = @ \cup {Head(batch)}])

\* for (let i = 0; i < recipients.length; i += batchSize)
RECURSIVE sendBatches(_, _, _, _)
sendBatches(recipients, rejects, i, results) ==
    IF i >= Len(recipients) THEN results
    ELSE LET to == IF i + batchSize < Len(recipients) THEN i + batchSize
                   ELSE Len(recipients)
         IN  sendBatches(recipients, rejects, i + batchSize,
                         sendBatch(SubSeq(recipients, i + 1, to), rejects, results))

\* a faulty variant: every recipient is counted as sent
sendBulkEmails_miscount(recipients, rejects) ==
    [sendBatches(recipients, rejects, 0, [success |-> 0, failed |-> 0, errors |-> {}])
        EXCEPT !.success = Len(recipients)]

sendBulkEmails(recipients, rejects) ==
    sendBatches(recipients, rejects, 0, [success |-> 0, failed |-> 0, errors |-> {}])

\* a faulty variant: the channel is taken to be usable without a check
verifyConnection_hopeful(reachable) == TRUE

\* transporter.verify() resolves (`reachable`) or throws; no transporter: false
verifyConnection(reachable) == transporter /\ reachable

\* a set as a sequence, in the order the store answers it
RECURSIVE SeqOf(_)
SeqOf(set) == IF set = {} THEN <<>>
              ELSE LET x == CHOOSE x \in set : TRUE IN <<x>> \o SeqOf(set \ {x})

(* ---------------------- sendBulkEmails, step by step -------------------- *)
\* no run: the value of `bulk` before the first call
Idle == [pc |-> "idle", recipients |-> <<>>, rejects |-> {}, i |-> 0,
         pending |-> {}, attempts |-> <<>>,
         results |-> [success |-> 0, failed |-> 0, errors |-> {}]]

\* recipients.slice(i, i + batchSize), as the positions of the recipients
slice(recipients, i) == {k \in 1..Len(recipients) : i < k /\ k <= i + batchSize}

\* a faulty variant: a rejected send is logged but not counted
settled_uncounted(results, to, rejects) ==
    IF sendEmail(to, rejects) THEN [results EXCEPT !.success = @ + 1]
    ELSE [results EXCEPT !.errors = @ \cup {to}]

\* the callback of batch.map after its send has settled: try { success++ }
\* catch { failed++; errors.push }; nothing is thrown on
settled(results, to, rejects) ==
    IF sendEmail(to, rejects) THEN [results EXCEPT !.success = @ + 1]
    ELSE [results EXCEPT !.failed = @ + 1, !.errors = @ \cup {to}]

\* a faulty variant: the delay is taken after every batch
delayDue_always(i, n) == TRUE

\* if (i + batchSize < recipients.length): a batch is still to come
delayDue(i, n) == i + batchSize < n

\* batch.map(async ...): the send of every recipient of the batch is started
startBatch(b, i) ==
    [b EXCEPT !.pc = "batch", !.i = i, !.pending = slice(b.recipients, i),
              !.attempts = [k \in DOMAIN @ |->
                               IF k \in slice(b.recipients, i) THEN @[k] + 1 ELSE @[k]]]

\* i += batchSize, then the loop test i < recipients.length
nextBatch(b) ==
    IF b.i + batchSize < Len(b.recipients) THEN startBatch(b, b.i + batchSize)
    ELSE [b EXCEPT !.pc = "returned", !.i = b.i + batchSize]

\* the call, up to its first await: the first batch is started
sendBulkEmailsCalled(recipients, rejects) ==
    /\ bulk.pc \in {"idle", "returned"}
    /\ bulk' = LET b == [Idle EXCEPT !.recipients = recipients, !.rejects = rejects,
                                     !.attempts = [k \in DOMAIN recipients |-> 0]]
               IN  IF recipients = <<>> THEN [b EXCEPT !.pc = "returned"]
                   ELSE startBatch(b, 0)
    /\ UNCHANGED <<adminSecretKey, transporter, db, bucket, nextId, resp, deletedIds, pristine, limiter, keepAlive, server, subscribing, listing>>

\* the send to the recipient at position k settles; after the last one of the
\* batch Promise.allSettled resolves and the loop goes on
sendSettled(k) ==
    /\ bulk.pc = "batch" /\ k \in bulk.pending
    /\ bulk' = LET b == [bulk EXCEPT
                            !.pending = @ \ {k},
                            !.results = settled(@, bulk.recipients[k], bulk.rejects)]
               IN  IF b.pending # {} THEN b
                   ELSE IF delayDue(b.i, Len(b.recipients)) THEN [b EXCEPT !.pc = "delay"]
                   ELSE nextBatch(b)
    /\ UNCHANGED <<adminSecretKey, transporter, db, bucket, nextId, resp, deletedIds, pristine, limiter, keepAlive, server, subscribing, listing>>

\* setTimeout(resolve, 1000) fires
delayElapsed ==
    /\ bulk.pc = "delay"
    /\ bulk' = nextBatch(bulk)
    /\ UNCHANGED <<adminSecretKey, transporter, db, bucket, nextId, resp, deletedIds, pristine, limiter, keepAlive, server, subscribing, listing>>

(* ------------------------ controllers: newsletter ----------------------- *)
\* a faulty variant: a send that delivered nothing is logged as 'failed'
campaignRow_failed(body, results) ==
    [subject |-> body.subject, html_content |-> body.htmlContent,
     sent_to_count |-> results.success, failed_count |-> results.failed,
     status |-> IF results.failed = 0 THEN "completed"
                ELSE IF results.success = 0 THEN "failed" ELSE "partial"]

\* the campaign row the send logs
campaignRow(body, results) ==
    [subject |-> body.subject, html_content |-> body.htmlContent,
     sent_to_count |-> results.success, failed_count |-> results.failed,
     status |-> IF results.failed = 0 THEN "completed" ELSE "partial"]

\* reachable: the outcome of transporter.verify(); rejects: the addresses the
\* provider rejects; f: which store call fails (1 the subscriber read, 2 the insert)
sendNewsletter(req, reachable, rejects, f) ==
    LET body == req.body
        subs == IF f = 1 THEN Unavailable
                ELSE Ok({r \in db["newsletter_subscribers"] : r.subscribed})
        emails == SeqOf({r.email : r \in subs.data})
        results == sendBulkEmails(emails, rejects)
        sent == [req EXCEPT !.ran = TRUE, !.fault = f,
                            !.attempted = {r.email : r \in subs.data},
                            !.rejected = results.errors, !.status = 200]
    IN  IF Falsy(body.subject) \/ Falsy(body.htmlContent)
        THEN Ran(req, 0, errorHandler(AppError(400)))
        ELSE IF ~verifyConnection(reachable) THEN Ran(req, 0, errorHandler(AppError(500)))
        ELSE IF body.recipientType = "test"
        THEN IF Falsy(body.testEmail) THEN Ran(req, 0, errorHandler(AppError(400)))
             ELSE IF ~sendEmail(body.testEmail, rejects)
             THEN Reply([req EXCEPT !.ran = TRUE, !.attempted = {body.testEmail},
                                    !.rejected = {body.testEmail}],
                        errorHandler(PlainError))
             ELSE Reply([req EXCEPT !.ran = TRUE, !.attempted = {body.testEmail}], 200)
        ELSE IF subs.error # "none" THEN Ran(req, f, errorHandler(AppError(400)))
        ELSE IF subs.data = {} THEN Ran(req, f, errorHandler(AppError(404)))
        \* the insert's result is not read: a failed insert still answers 200
        ELSE IF f = 2 THEN Reply(sent, 200)
        ELSE /\ nextId <= MaxIds
             /\ db' = [db EXCEPT !["newsletter_campaigns"] =
                          @ \cup {[id |-> nextId, created_at |-> nextId]
                                  @@ campaignRow(body, results)}]
             /\ nextId' = nextId + 1
             /\ resp' = sent
             /\ UNCHANGED <<adminSecretKey, transporter, bucket, deletedIds, pristine, limiter, bulk, keepAlive, server, subscribing, listing>>

getTemplates(req, f) ==
    LET page == orderDesc(db["newsletter_templates"], "created_at")
    IN  IF f = 1 THEN Ran(req, f, errorHandler(AppError(400)))
        ELSE RanList(req, f, Len(page), page)

getTemplateById(req, f) == getById(req, "newsletter_templates", f)

\* the id is uuidv4(), made by the controller
createTemplate(req, f) ==
    LET b == req.body
    IN  IF Falsy(b.name) \/ Falsy(b.htmlContent) THEN Ran(req, 0, errorHandler(AppError(400)))
        ELSE insert(req, "newsletter_templates",
                    [name |-> b.name, description |-> b.description,
                     html_content |-> b.htmlContent, thumbnail |-> b.thumbnail],
                    f = 1, f, 201, FALSE)

\* req.body goes to .update() as it came: no schema stands before this controller
updateTemplate(req, f) == update(req, "newsletter_templates", f)

deleteTemplate(req, f) == delete(req, "newsletter_templates", f)

\* a faulty variant: reading the log of campaigns empties it
getCampaigns_prune(req, f) ==
    /\ db' = [db EXCEPT !["newsletter_campaigns"] = {}]
    /\ resp' = [req EXCEPT !.ran = TRUE, !.fault = f, !.status = 200]
    /\ UNCHANGED <<adminSecretKey, transporter, bucket, nextId, deletedIds, pristine, limiter, bulk, keepAlive, server, subscribing, listing>>

getCampaigns(req, f) ==
    LET page == pageOf(db["newsletter_campaigns"], "created_at", req.body)
    IN  IF f = 1 THEN Ran(req, f, errorHandler(AppError(400)))
        ELSE RanList(req, f, Len(page), page)

(* --------------------------- routes: newsletter ------------------------- *)
\* router.use(authenticateServiceRole) stands before every route of the router
POST_newsletter_send(h, body, reachable, rejects, f) ==
    LET req == [Req("POST /newsletter/send", h, BogusId, body)
                    EXCEPT !.provider = [reachable |-> reachable, rejects |-> rejects]]
    IN  IF ~authenticateServiceRole(h) THEN Unauthorized(req)
        ELSE sendNewsletter(req, reachable, rejects, f)

GET_newsletter_templates(h, f) ==
    LET req == Req("GET /newsletter/templates", h, BogusId, ABSENT)
    IN  IF ~authenticateServiceRole(h) THEN Unauthorized(req) ELSE getTemplates(req, f)

GET_newsletter_templates_id(h, id, f) ==
    LET req == Req("GET /newsletter/templates/:id", h, id, ABSENT)
    IN  IF ~authenticateServiceRole(h) THEN Unauthorized(req) ELSE getTemplateById(req, f)

POST_newsletter_templates(h, body, f) ==
    LET req == Req("POST /newsletter/templates", h, BogusId, body)
    IN  IF ~authenticateServiceRole(h) THEN Unauthorized(req) ELSE createTemplate(req, f)

PUT_newsletter_templates_id(h, id, body, f) ==
    LET req == Req("PUT /newsletter/templates/:id", h, id, body)
    IN  IF ~authenticateServiceRole(h) THEN Unauthorized(req) ELSE updateTemplate(req, f)

DELETE_newsletter_templates_id(h, id, f) ==
    LET req == Req("DELETE /newsletter/templates/:id", h, id, ABSENT)
    IN  IF ~authenticateServiceRole(h) THEN Unauthorized(req) ELSE deleteTemplate(req, f)

GET_newsletter_campaigns(h, query, f) ==
    LET req == Req("GET /newsletter/campaigns", h, BogusId, query)
    IN  IF ~authenticateServiceRole(h) THEN Unauthorized(req) ELSE getCampaigns(req, f)

(* ------------------------------ app: pipeline --------------------------- *)
\* config.rateLimit.maxRequests (RATE_LIMIT_MAX_REQUESTS; 100 when it is unset)
maxRequests == 2

\* the client addresses (req.ip) the limiter keys its counts by
Clients == {"10.0.0.1", "10.0.0.2"}

\* a window that has just begun; next to the limiter's own count `hits`, the
\* history `seen` counts every request of the client in the window
NoHits == [c \in Clients |-> [hits |-> 0, seen |-> 0]]

\* a count is kept up to one past the maximum: above it nothing differs
Count(n) == IF n <= maxRequests THEN n + 1 ELSE n

\* app.use(prefix, ...): the path begins with the segments of the prefix
mounted(path, prefix) ==
    Len(path) >= Len(prefix) /\ SubSeq(path, 1, Len(prefix)) = prefix

RECURSIVE segments(_)
segments(path) == IF path = <<>> THEN "" ELSE "/" \o Head(path) \o segments(Tail(path))

\* req.originalUrl
originalUrl(path) == IF path = <<>> THEN "/" ELSE segments(path)

\* GET `path` from client `c` through the middleware and handlers of app.ts in
\* the order they are mounted; `landing`: views/landing.html can be read
app(c, path, landing) ==
    LET req == [ip |-> c] @@ Req("GET " \o originalUrl(path), NoRequest.hdrs, BogusId, ABSENT)
        limited == mounted(path, <<"api">>)
        hits == IF limited THEN Count(limiter[c].hits) ELSE limiter[c].hits
        handled == [req EXCEPT !.ran = TRUE]
    IN  /\ limiter' = [limiter EXCEPT ![c] = [hits |-> hits, seen |-> Count(@.seen)]]
        /\ resp' = IF limited /\ hits > maxRequests THEN [req EXCEPT !.status = 429]
                   ELSE IF mounted(path, <<"api", "docs">>) THEN [handled EXCEPT !.status = 200]
                   ELSE IF path = <<"health">> THEN [handled EXCEPT !.status = 200]
                   ELSE IF path = <<>>
                        THEN [handled EXCEPT !.status = IF landing THEN 200 ELSE 500]
                   ELSE [req EXCEPT !.status = 404]
        /\ UNCHANGED <<adminSecretKey, transporter, db, bucket, nextId, deletedIds, pristine, bulk, keepAlive, server, subscribing, listing>>

\* windowMs after the first hit of its window the counts of a client start again
windowElapsed(c) ==
    /\ limiter[c] # NoHits[c]
    /\ limiter' = [limiter EXCEPT ![c] = NoHits[c]]
    /\ UNCHANGED <<adminSecretKey, transporter, db, bucket, nextId, resp, deletedIds, pristine, bulk, keepAlive, server, subscribing, listing>>

(* -------------------------- services: keepalive ------------------------- *)
\* the service before start(): no cron task, no timer, no firing
\* `issued`, `log`: the calls made and the lines logged by the firing in
\* progress, or by the last one; `firings`: how many firings have begun;
\* `failures`: how many of them ended in the catch of performKeepAlive
NotStarted == [pingTask |-> FALSE, timer |-> FALSE, pc |-> "idle",
               issued |-> {}, log |-> {}, firings |-> 0, failures |-> 0]

\* start(): cron.schedule('*/14 * * * *', ...) and setTimeout(..., 60000)
start ==
    /\ keepAlive = NotStarted
    /\ keepAlive' = [keepAlive EXCEPT !.pingTask = TRUE, !.timer = TRUE]
    /\ UNCHANGED <<adminSecretKey, transporter, db, bucket, nextId, resp, deletedIds, pristine, limiter, bulk, server, subscribing, listing>>

\* stop(): the cron task is stopped and forgotten
stop ==
    /\ keepAlive.pingTask
    /\ keepAlive' = [keepAlive EXCEPT !.pingTask = FALSE]
    /\ UNCHANGED <<adminSecretKey, transporter, db, bucket, nextId, resp, deletedIds, pristine, limiter, bulk, server, subscribing, listing>>

\* performKeepAlive up to its first await: pingServer has issued the health GET
performKeepAlive(k) ==
    [k EXCEPT !.pc = "pingServer", !.issued = {"GET /health"}, !.log = {},
              !.firings = @ + 1]

\* the cron task fires
cronFires ==
    /\ keepAlive.pingTask /\ keepAlive.pc = "idle" /\ keepAlive.firings < MaxFirings
    /\ keepAlive' = performKeepAlive(keepAlive)
    /\ UNCHANGED <<adminSecretKey, transporter, db, bucket, nextId, resp, deletedIds, pristine, limiter, bulk, server, subscribing, listing>>

\* the timer set by start() fires, 60 s after it
timerFires ==
    /\ keepAlive.timer /\ keepAlive.pc = "idle" /\ keepAlive.firings < MaxFirings
    /\ keepAlive' = performKeepAlive([keepAlive EXCEPT !.timer = FALSE])
    /\ UNCHANGED <<adminSecretKey, transporter, db, bucket, nextId, resp, deletedIds, pristine, limiter, bulk, server, subscribing, listing>>

\* what fetch(serverUrl + '/health') may do
Fetched == {"ok", "not ok", "throws"}
\* what supabase.from('projects').select('id').limit(1) may answer
Selected == {"rows", "PGRST116", "error"}

\* pingServer after the fetch has settled: it logs and returns, or logs and
\* throws to the catch of performKeepAlive, which logs and ends the firing;
\* after a return pingDatabase issues its read
pingServer(k, fetched) ==
    IF fetched = "ok"
    THEN [k EXCEPT !.pc = "pingDatabase", !.issued = @ \cup {"select projects"},
                   !.log = @ \cup {"Server ping"}]
    ELSE [k EXCEPT !.pc = "idle", !.failures = @ + 1,
                   !.log = @ \cup {"Server ping error", "Keep-alive ping failed"}]

\* a faulty variant: the error of the read leaves performKeepAlive uncaught
pingDatabase_uncaught(k, selected) ==
    IF selected \in {"rows", "PGRST116"}
    THEN [k EXCEPT !.pc = "idle",
                   !.log = @ \cup {"Database ping", "Keep-alive ping successful"}]
    ELSE [k EXCEPT !.pc = "rejected", !.log = @ \cup {"Database ping error"}]

\* pingDatabase after the read has settled, and the end of performKeepAlive
pingDatabase(k, selected) ==
    IF selected \in {"rows", "PGRST116"}
    THEN [k EXCEPT !.pc = "idle",
                   !.log = @ \cup {"Database ping", "Keep-alive ping successful"}]
    ELSE [k EXCEPT !.pc = "idle", !.failures = @ + 1,
                   !.log = @ \cup {"Database ping error", "Keep-alive ping failed"}]

healthSettled(fetched) ==
    /\ keepAlive.pc = "pingServer"
    /\ keepAlive' = pingServer(keepAlive, fetched)
    /\ UNCHANGED <<adminSecretKey, transporter, db, bucket, nextId, resp, deletedIds, pristine, limiter, bulk, server, subscribing, listing>>

selectSettled(selected) ==
    /\ keepAlive.pc = "pingDatabase"
    /\ keepAlive' = pingDatabase(keepAlive, selected)
    /\ UNCHANGED <<adminSecretKey, transporter, db, bucket, nextId, resp, deletedIds, pristine, limiter, bulk, server, subscribing, listing>>

(* --------------------------------- server ------------------------------- *)
\* app.listen(PORT): the server accepts connections; `event`: the signals
\* and failures the process has met; `closed`: server.close() has completed;
\* `code`: the exit code
NoCode == -1
Listening == [state |-> "listening", event |-> {}, closed |-> FALSE,
              code |-> NoCode, connections |-> 0]

\* a client connects
accept ==
    /\ server.state = "listening" /\ server.connections < MaxConnections
    /\ server' = [server EXCEPT !.connections = @ + 1]
    /\ UNCHANGED keepAlive
    /\ UNCHANGED <<adminSecretKey, transporter, db, bucket, nextId, resp, deletedIds, pristine, limiter, bulk, subscribing, listing>>

\* the callback of server.close(): process.exit(code)
exit(srv, code) == [srv EXCEPT !.state = "exited", !.closed = TRUE, !.code = code]

\* server.close(() => process.exit(code)): no new connection is accepted, the
\* callback runs once every open connection has ended
close(srv, code) ==
    IF srv.state # "listening" THEN srv
    ELSE IF srv.connections = 0 THEN exit(srv, code)
    ELSE [srv EXCEPT !.state = "closing", !.code = code]

\* a connection ends; the last one of a closing server completes the close
connectionEnds ==
    /\ server.state \in {"listening", "closing"} /\ server.connections > 0
    /\ server' = LET srv == [server EXCEPT !.connections = @ - 1]
                 IN  IF srv.state = "closing" /\ srv.connections = 0
                     THEN exit(srv, srv.code) ELSE srv
    /\ UNCHANGED keepAlive
    /\ UNCHANGED <<adminSecretKey, transporter, db, bucket, nextId, resp, deletedIds, pristine, limiter, bulk, subscribing, listing>>

\* if (keepAliveService) keepAliveService.stop()
stopped(k) == [k EXCEPT !.pingTask = FALSE]

\* process.on('SIGTERM') and process.on('SIGINT')
signal(name) ==
    /\ server.state # "exited"
    /\ keepAlive' = stopped(keepAlive)
    /\ server' = close([server EXCEPT !.event = @ \cup {name}], 0)
    /\ UNCHANGED <<adminSecretKey, transporter, db, bucket, nextId, resp, deletedIds, pristine, limiter, bulk, subscribing, listing>>

\* process.on('unhandledRejection')
unhandledRejection ==
    /\ server.state # "exited"
    /\ keepAlive' = stopped(keepAlive)
    /\ server' = close([server EXCEPT !.event = @ \cup {"unhandledRejection"}], 1)
    /\ UNCHANGED <<adminSecretKey, transporter, db, bucket, nextId, resp, deletedIds, pristine, limiter, bulk, subscribing, listing>>

\* an exception nothing catches: the process has no 'uncaughtException' handler,
\* the runtime prints the error and ends the process with code 1 at once
uncaughtException ==
    /\ server.state # "exited"
    /\ server' = [server EXCEPT !.event = @ \cup {"uncaughtException"},
                                !.state = "exited", !.code = 1]
    /\ UNCHANGED keepAlive
    /\ UNCHANGED <<adminSecretKey, transporter, db, bucket, nextId, resp, deletedIds, pristine, limiter, bulk, subscribing, listing>>

(* ============================== behaviours ============================== *)
CrudTables == {"projects", "news", "complaints", "newsletter_templates"}

Init ==
    /\ adminSecretKey \in {UNDEF, AdminSecret}
    /\ transporter \in BOOLEAN
    /\ db = [t \in Tables |-> {}]
    /\ bucket = {}
    /\ nextId = 1
    /\ resp = NoRequest
    /\ deletedIds = [t \in CrudTables |-> {}]
    /\ pristine = <<>>
    /\ listing = NoListing
    /\ subscribing = NoSubscribes
    /\ server = Listening
    /\ keepAlive = NotStarted
    /\ bulk = Idle
    /\ limiter = NoHits

\* the deployment the documentation describes: secret and mail credentials set
Configured == adminSecretKey = AdminSecret /\ transporter

(* ------------------------------- requests ------------------------------- *)
H(a, k, s) == [authorization |-> a, xApiKey |-> k, xAdminSecret |-> s]
NoCredential == H(NoHdr, NoHdr, NoHdr)
AnonViaApiKey == H(NoHdr, Hdr(FALSE, AnonKey), NoHdr)
AnonViaBearer == H(Hdr(TRUE, AnonKey), NoHdr, NoHdr)
AdminViaBearer == H(Hdr(TRUE, AdminSecret), NoHdr, NoHdr)
AdminViaApiKey == H(NoHdr, Hdr(FALSE, AdminSecret), NoHdr)
AdminViaSecret == H(NoHdr, NoHdr, Hdr(FALSE, AdminSecret))
\* 'Bearer admin-secret' sent in x-api-key: compared as it is
BearerInApiKey == H(NoHdr, Hdr(TRUE, AdminSecret), NoHdr)

PublicTier == {NoCredential, AnonViaApiKey, AnonViaBearer}
AdminTier == {AdminViaBearer, AdminViaApiKey, AdminViaSecret}
Credentials == PublicTier \cup AdminTier \cup {BearerInApiKey}

Title1 == S(10, "Road works")
Title2 == S(200, "Bridge")
Text1 == S(20, "text")
Place1 == S(5, "Lagos")
Date1 == S(20, "2024-01-01T00:00:00Z")
Date2 == S(20, "2025-01-01T00:00:00Z")
Email1 == S(6, "a@b.io")
Email2 == S(100, "c@d.io")

ProjectBody(t, d, l, st, im) ==
    [title |-> t, description |-> d, location |-> l, status |-> st, images |-> im]
NewsBody(t, d, e, l, p, im) ==
    [title |-> t, details |-> d, event |-> e, location |-> l, published_at |-> p,
     images |-> im]
ComplaintBody(n, e, s, d) == [name |-> n, email |-> e, subject |-> s, description |-> d]
TemplateBody(n, h) ==
    [name |-> n, description |-> ABSENT, htmlContent |-> h, thumbnail |-> ABSENT]
TemplatePatch(i, n) ==
    [id |-> i, name |-> n, description |-> ABSENT, html_content |-> ABSENT,
     thumbnail |-> ABSENT]
Query(st, l, o) == [status |-> st, subscribed |-> UNDEF, limit |-> l, offset |-> o]
SendBody(s, h, r, t) == [subject |-> s, htmlContent |-> h, recipientType |-> r, testEmail |-> t]
File(n, m) == [originalname |-> n, mimetype |-> m, oversize |-> FALSE]

AProject == ProjectBody(Title1, Text1, Place1, UNDEF, NoImages)
ANews == NewsBody(Title1, Text1, Title1, Place1, Date1, NoImages)
AComplaint == ComplaintBody(S(2, "Al"), Email1, Place1, Title1)
ATemplate == TemplateBody(S(4, "News"), S(9, "<p>Hi</p>"))
APatch == ProjectBody(Title2, ABSENT, ABSENT, UNDEF, NoImages)
ANewsPatch == NewsBody(Title2, ABSENT, ABSENT, ABSENT, ABSENT, NoImages)
AQuery == Query(UNDEF, UNDEF, UNDEF)
ASend == SendBody(S(5, "Hello"), S(9, "<p>Hi</p>"), "all", ABSENT)
ATestSend == SendBody(S(5, "Hello"), S(9, "<p>Hi</p>"), "test", Email2)
UntitledSend == SendBody(ABSENT, S(9, "<p>Hi</p>"), "all", ABSENT)

(* ---- Spec: every route, called with every credential, small bodies ----- *)
AFile == <<File("a.png", "image/png")>>

Next ==
    \/ \E h \in Credentials : GET_projects(h, AQuery, 0)
    \/ \E h \in Credentials, id \in KnownIds : GET_projects_id(h, id, 0)
    \/ \E h \in Credentials : POST_projects(h, AProject, 0) /\ nextId' <= MaxGateRows + 1
    \/ \E h \in Credentials, id \in KnownIds : PUT_projects_id(h, id, APatch, 0)
    \/ \E h \in Credentials, id \in KnownIds : DELETE_projects_id(h, id, 0)
    \/ \E h \in Credentials : POST_projects_upload(h, AFile, {}) /\ nextId' <= MaxGateRows + 1
    \/ \E h \in Credentials : GET_news(h, AQuery, 0)
    \/ \E h \in Credentials, id \in KnownIds : GET_news_id(h, id, 0)
    \/ \E h \in Credentials : POST_news(h, ANews, 0) /\ nextId' <= MaxGateRows + 1
    \/ \E h \in Credentials, id \in KnownIds : PUT_news_id(h, id, ANewsPatch, 0)
    \/ \E h \in Credentials, id \in KnownIds : DELETE_news_id(h, id, 0)
    \/ \E h \in Credentials : POST_news_upload(h, AFile, {}) /\ nextId' <= MaxGateRows + 1
    \/ \E h \in Credentials : GET_complaints(h, AQuery, 0)
    \/ \E h \in Credentials, id \in KnownIds : GET_complaints_id(h, id, 0)
    \/ \E h \in Credentials : POST_complaints(h, AComplaint, 0) /\ nextId' <= MaxGateRows + 1
    \/ \E h \in Credentials, id \in KnownIds : DELETE_complaints_id(h, id, 0)
    \/ \E h \in Credentials : GET_subscribers(h, AQuery, 0)
    \/ \E h \in Credentials : GET_subscribers_count(h, AQuery, 0)
    \/ \E h \in Credentials :
          POST_subscribers_subscribe(h, [email |-> Email1], 0) /\ nextId' <= MaxGateRows + 1
    \/ \E h \in Credentials : POST_subscribers_unsubscribe(h, [email |-> Email1], 0)
    \/ \E h \in Credentials :
          POST_newsletter_send(h, ASend, TRUE, {}, 0) /\ nextId' <= MaxGateRows + 1
    \/ \E h \in Credentials : GET_newsletter_templates(h, 0)
    \/ \E h \in Credentials, id \in KnownIds : GET_newsletter_templates_id(h, id, 0)
    \/ \E h \in Credentials :
          POST_newsletter_templates(h, ATemplate, 0) /\ nextId' <= MaxGateRows + 1
    \/ \E h \in Credentials, id \in KnownIds :
          PUT_newsletter_templates_id(h, id, TemplatePatch(NoId, S(5, "Other")), 0)
    \/ \E h \in Credentials, id \in KnownIds : DELETE_newsletter_templates_id(h, id, 0)
    \/ \E h \in Credentials : GET_newsletter_campaigns(h, AQuery, 0)

Spec == Init /\ [][Next]_vars

(* --------------------------- claims of Spec ----------------------------- *)
AdminRoutes ==
    {"POST /projects", "PUT /projects/:id", "DELETE /projects/:id", "POST /projects/upload",
     "POST /news", "PUT /news/:id", "DELETE /news/:id", "POST /news/upload",
     "GET /complaints", "GET /complaints/:id", "DELETE /complaints/:id",
     "GET /subscribers",
     "POST /newsletter/send", "GET /newsletter/templates", "GET /newsletter/templates/:id",
     "POST /newsletter/templates", "PUT /newsletter/templates/:id",
     "DELETE /newsletter/templates/:id", "GET /newsletter/campaigns"}

\* C1: on every admin-gated route a request with no credential or a public-tier
\* credential is answered 401 and its controller never runs; the same request
\* with the admin secret in Authorization Bearer, x-api-key or x-admin-secret
\* reaches the controller.
C1_AdminGate ==
    resp.route \in AdminRoutes =>
        /\ resp.hdrs \in PublicTier => (resp.status = 401 /\ ~resp.ran)
        /\ (resp.hdrs \in AdminTier /\ adminSecretKey = AdminSecret) => resp.ran

\* The gate as it behaves once ADMIN_SECRET_KEY is set.
C1_AdminGateConfigured == (adminSecretKey = AdminSecret) => C1_AdminGate

\* C28: the admin gate fails closed: when the admin secret is undefined,
\* authenticateServiceRole answers 401 to every request, the request that sends
\* none of the three headers included, and the controller does not run.
C28_FailsClosed ==
    (adminSecretKey = UNDEF /\ resp.route \in AdminRoutes)
    => (resp.status = 401 /\ ~resp.ran)

\* What the gate does when the secret is undefined: a request that leaves out
\* at least one of the three headers is let through.
C28_OpenWhenUndefined ==
    (/\ adminSecretKey = UNDEF /\ resp.route \in AdminRoutes
     /\ NoHdr \in {resp.hdrs.authorization, resp.hdrs.xApiKey, resp.hdrs.xAdminSecret})
    => resp.status # 401

ComplaintReads == {"GET /complaints", "GET /complaints/:id", "DELETE /complaints/:id"}

\* C9: a caller without the admin credential can only insert a complaint:
\* listing, get-by-id and delete answer 401 without running and leave the
\* complaints as they were; and no request of any caller changes a field of a
\* complaint row that exists.
C9_ComplaintsOneWay ==
    [][/\ (resp'.route \in ComplaintReads /\ resp'.hdrs \in PublicTier)
          => (resp'.status = 401 /\ ~resp'.ran /\ db'.complaints = db.complaints)
       /\ \A r \in db.complaints : \A r2 \in db'.complaints : r2.id = r.id => r2 = r]_vars

\* The part of C9 that holds whatever the configuration: rows are never modified.
C9_ComplaintRowsImmutable ==
    [][\A r \in db.complaints : \A r2 \in db'.complaints : r2.id = r.id => r2 = r]_vars

(* ---- SpecCrud: projects, news, complaints, templates as the admin ------ *)
InitCrud == Init /\ Configured

BProject == ProjectBody(Title2, Text1, Place1, "completed", Images(1))
StatusPatch == ProjectBody(ABSENT, ABSENT, ABSENT, "completed", NoImages)
UndatedNews == NewsBody(Title1, Text1, Title1, Place1, ABSENT, NoImages)

Faults == {0, 1}

NextCrud ==
    \/ \E id \in KnownIds, f \in Faults : GET_projects_id(NoCredential, id, f)
    \/ \E b \in {AProject, BProject}, f \in Faults :
          POST_projects(AdminViaSecret, b, f) /\ nextId' <= MaxCrudRows + 1
    \/ \E id \in KnownIds, b \in {APatch, StatusPatch}, f \in Faults :
          PUT_projects_id(AdminViaSecret, id, b, f)
    \/ \E id \in KnownIds, f \in Faults : DELETE_projects_id(AdminViaSecret, id, f)
    \/ \E id \in KnownIds, f \in Faults : GET_news_id(NoCredential, id, f)
    \/ \E b \in {ANews, UndatedNews}, f \in Faults :
          POST_news(AdminViaSecret, b, f) /\ nextId' <= MaxCrudRows + 1
    \/ \E id \in KnownIds, f \in Faults : PUT_news_id(AdminViaSecret, id, ANewsPatch, f)
    \/ \E id \in KnownIds, f \in Faults : DELETE_news_id(AdminViaSecret, id, f)
    \/ \E id \in KnownIds, f \in Faults : GET_complaints_id(AdminViaSecret, id, f)
    \/ \E f \in Faults :
          POST_complaints(NoCredential, AComplaint, f) /\ nextId' <= MaxCrudRows + 1
    \/ \E id \in KnownIds, f \in Faults : DELETE_complaints_id(AdminViaSecret, id, f)
    \/ \E id \in KnownIds, f \in Faults : GET_newsletter_templates_id(AdminViaSecret, id, f)
    \/ \E f \in Faults :
          POST_newsletter_templates(AdminViaSecret, ATemplate, f)
          /\ nextId' <= MaxCrudRows + 1
    \/ \E id \in KnownIds, to \in KnownIds \cup {NoId}, f \in Faults :
          PUT_newsletter_templates_id(AdminViaSecret, id,
                                      TemplatePatch(to, S(5, "Other")), f)
    \/ \E id \in KnownIds, f \in Faults : DELETE_newsletter_templates_id(AdminViaSecret, id, f)

SpecCrud == InitCrud /\ [][NextCrud]_vars

(* Projects and news only: create, read back, update, delete. *)
NextRoundTrip ==
    \/ \E id \in KnownIds : GET_projects_id(NoCredential, id, 0)
    \/ \E b \in {AProject, BProject} :
          POST_projects(AdminViaSecret, b, 0) /\ nextId' <= MaxRoundTripRows + 1
    \/ \E id \in KnownIds, b \in {APatch, StatusPatch} :
          PUT_projects_id(AdminViaSecret, id, b, 0)
    \/ \E id \in KnownIds : DELETE_projects_id(AdminViaSecret, id, 0)
    \/ \E id \in KnownIds : GET_news_id(NoCredential, id, 0)
    \/ \E b \in {ANews, UndatedNews} :
          POST_news(AdminViaSecret, b, 0) /\ nextId' <= MaxRoundTripRows + 1
    \/ \E id \in KnownIds : PUT_news_id(AdminViaSecret, id, ANewsPatch, 0)
    \/ \E id \in KnownIds : DELETE_news_id(AdminViaSecret, id, 0)

SpecRoundTrip == InitCrud /\ [][NextRoundTrip]_vars

(* ------------------------- claims of SpecCrud --------------------------- *)
GetById == [projects |-> "GET /projects/:id", news |-> "GET /news/:id",
            complaints |-> "GET /complaints/:id",
            newsletter_templates |-> "GET /newsletter/templates/:id"]
Put == [projects |-> "PUT /projects/:id", news |-> "PUT /news/:id",
        newsletter_templates |-> "PUT /newsletter/templates/:id"]

\* C4: for projects, news, complaints and templates, once a DELETE has removed
\* the row of an id, every later GET-by-id of that id answers 404, whatever
\* was done to other ids in between.
C4_DeletedIdStays404 ==
    \A t \in CrudTables :
        (resp.route = GetById[t] /\ resp.id \in deletedIds[t]) => resp.status = 404

\* The part of C4 the code keeps: the three resources whose bodies pass a schema.
C4_ValidatedResourcesStay404 ==
    \A t \in CrudTables \ {"newsletter_templates"} :
        (resp.route = GetById[t] /\ resp.id \in deletedIds[t]) => resp.status = 404

C4_DeleteThenGet ==
    \E t \in CrudTables : resp.route = GetById[t] /\ resp.id \in deletedIds[t]

\* the caller-supplied fields of `input` are the fields of `row`
SameFields(row, input) == \A fld \in DOMAIN input : Present(input, fld) => row[fld] = input[fld]

C10_UpdateOfMissingIs404 ==
    [][\A t \in DOMAIN Put :
          (resp'.route = Put[t] /\ resp'.ran /\ resp'.fault = 0 /\ eqId(t, resp'.id) = {})
          => (resp'.status = 404 /\ db' = db)]_vars

\* What the code does instead: the store is unchanged, the answer is 400.
C10_UpdateOfMissingIs400 ==
    [][\A t \in DOMAIN Put :
          (resp'.route = Put[t] /\ resp'.ran /\ resp'.fault = 0 /\ eqId(t, resp'.id) = {})
          => (resp'.status = 400 /\ db' = db)]_vars

\* C11: a GET-by-id is answered 404 exactly when no row has the id; a failure
\* of the store on an id whose row exists is not reported as 404.
C11_NotFoundOnlyWhenAbsent ==
    \A t \in CrudTables :
        (resp.route = GetById[t] /\ resp.ran)
        => ((resp.status = 404) <=> (eqId(t, resp.id) = {}))

\* The part of C11 the code keeps: when the store answers, 404 means no row.
C11_NotFoundWhenStoreAnswers ==
    \A t \in CrudTables :
        (resp.route = GetById[t] /\ resp.ran /\ resp.fault = 0)
        => ((resp.status = 404) <=> (eqId(t, resp.id) = {}))

Delete == [projects |-> "DELETE /projects/:id", complaints |-> "DELETE /complaints/:id"]

\* C12: a DELETE of a project or a complaint whose id matches no row is
\* answered 404, and the store is unchanged.
C12_DeleteOfMissingIs404 ==
    [][\A t \in DOMAIN Delete :
          (resp'.route = Delete[t] /\ resp'.ran /\ resp'.fault = 0 /\ eqId(t, resp'.id) = {})
          => (resp'.status = 404 /\ db' = db)]_vars

\* What the code does instead: the store is unchanged, the answer is 200.
C12_DeleteOfMissingIs200 ==
    [][\A t \in DOMAIN Delete :
          (resp'.route = Delete[t] /\ resp'.ran /\ resp'.fault = 0 /\ eqId(t, resp'.id) = {})
          => (resp'.status = 200 /\ db' = db)]_vars

(* ------------------------------ subscribers ----------------------------- *)
Emails == {Email1, Email2}

NextSubscribers ==
    \/ \E e \in Emails, f \in 0..2 :
          /\ POST_subscribers_subscribe(NoCredential, [email |-> e], f)
          /\ nextId' <= MaxSubscriberRows + 1
    \/ \E e \in Emails, f \in 0..1 :
          POST_subscribers_unsubscribe(NoCredential, [email |-> e], f)
    \/ \E s \in {UNDEF, "true", "false"}, f \in 0..1 :
          GET_subscribers_count(NoCredential, [subscribed |-> s], f)

SpecSubscribers == InitCrud /\ [][NextSubscribers]_vars

\* C2: in any sequence of subscribe and unsubscribe calls the store answers,
\* subscribe of an unknown email inserts a subscribed row (201), subscribe of
\* a subscribed email answers 400 and changes nothing, subscribe of an
\* unsubscribed email answers 200 and sets subscribed on the row that exists;
\* after every call, failed or not, no email has more than one row.
C2_SubscribeSequence ==
    [][/\ \A e \in Emails :
             Cardinality({r \in db'.newsletter_subscribers : r.email = e}) <= 1
       /\ (resp'.route = "POST /subscribers/subscribe" /\ resp'.ran /\ resp'.fault = 0)
          => LET e == resp'.body.email
                 before == eqEmail(e)
                 after == {r \in db'.newsletter_subscribers : r.email = e}
                 others == {r \in db.newsletter_subscribers : r.email # e}
             IN  /\ {r \in db'.newsletter_subscribers : r.email # e} = others
                 /\ before = {} =>
                       /\ resp'.status = 201
                       /\ Cardinality(after) = 1 /\ \A r \in after : r.subscribed
                 /\ (\E r \in before : r.subscribed) =>
                       (resp'.status = 400 /\ db' = db)
                 /\ (\E r \in before : ~r.subscribed) =>
                       /\ resp'.status = 200
                       /\ after = {[r EXCEPT !.subscribed = TRUE] : r \in before}]_vars

C2_Resubscribed ==
    /\ resp.route = "POST /subscribers/subscribe"
    /\ resp.status = 200 /\ resp.fault = 0
    /\ \E r \in db.newsletter_subscribers :
          r.email = resp.body.email /\ r.subscribed /\ r.id < nextId - 1
    /\ Cardinality(db.newsletter_subscribers) = 2

\* C13: an unsubscribe for an email no row has answers 404 and creates no row;
\* for an email with a row it answers 200 and leaves that row unsubscribed;
\* repeated on a row already unsubscribed it answers 200 again and the store
\* is as it was. No other row changes.
C13_UnsubscribeIdempotent ==
    [][(resp'.route = "POST /subscribers/unsubscribe" /\ resp'.ran /\ resp'.fault = 0)
       => LET e == resp'.body.email
              before == eqEmail(e)
              after == {r \in db'.newsletter_subscribers : r.email = e}
              others == {r \in db.newsletter_subscribers : r.email # e}
          IN  /\ {r \in db'.newsletter_subscribers : r.email # e} = others
              /\ before = {} => (resp'.status = 404 /\ db' = db)
              /\ before # {} =>
                    /\ resp'.status = 200
                    /\ after = {[r EXCEPT !.subscribed = FALSE] : r \in before}
              /\ (\E r \in before : ~r.subscribed) =>
                    (resp'.status = 200 /\ db' = db)]_vars

C13_Unsubscribed ==
    /\ resp.route = "POST /subscribers/unsubscribe"
    /\ resp.status = 200 /\ resp.fault = 0
    /\ \E r \in db.newsletter_subscribers : r.email = resp.body.email /\ ~r.subscribed
    /\ \E r \in db.newsletter_subscribers : r.email # resp.body.email /\ r.subscribed

\* C23: no controller swallows an error of the store: whenever a call to the
\* store made while handling a request fails, the request ends in an error
\* response and never in a success response; the lookup of the existing row
\* in subscribe is such a call.
C23_StoreErrorsReported ==
    (resp.ran /\ resp.fault # 0) => resp.status >= 400

\* What the code does instead, on the subscriber routes: the one failure that
\* ends in a success response is that of the lookup in subscribe.
C23_OnlyTheLookupSwallowed ==
    (resp.ran /\ resp.fault # 0 /\ resp.status < 400)
    => (resp.route = "POST /subscribers/subscribe" /\ resp.fault = 1 /\ resp.status = 201)

(* ------------------------- concurrent subscribes ------------------------ *)
\* two connections subscribe, each step of each request interleaved with the
\* other's; between two rounds an address may be unsubscribed
NextSubscribing ==
    \/ \E i \in Slots, e \in Emails : subscribeCalled(i, e)
    \/ \E i \in Slots : lookupSettled(i)
    \/ \E i \in Slots : writeSettled(i) /\ nextId' <= MaxSubscriberRows + 1
    \/ answersSent
    \/ \E e \in Emails :
          /\ subscribing = NoSubscribes
          /\ POST_subscribers_unsubscribe(NoCredential, [email |-> e], 0)

SpecSubscribing == InitCrud /\ [][NextSubscribing]_vars

\* both requests are answered and were for the same address
BothAnswered ==
    /\ \A i \in Slots : subscribing[i].pc = "done"
    /\ subscribing[1].email = subscribing[2].email

Succeeded(i) == subscribing[i].status \in {200, 201}

\* C27: two concurrent subscribe requests for the same address, whose row is
\* absent or present with subscribed = false, end as some serial execution of
\* the two would: exactly one row of the address, and at most one of the two
\* requests reports a successful subscription.
C27_AsSomeSerialOrder ==
    BothAnswered =>
        /\ Cardinality(eqEmail(subscribing[1].email)) = 1
        /\ ~(Succeeded(1) /\ Succeeded(2))

\* The part of C27 the code keeps: exactly one row of the address, subscribed,
\* and at most one of the two requests is answered 201.
C27_OneRowOneCreated ==
    BothAnswered =>
        /\ Cardinality(eqEmail(subscribing[1].email)) = 1
        /\ \A r \in eqEmail(subscribing[1].email) : r.subscribed
        /\ ~(subscribing[1].status = 201 /\ subscribing[2].status = 201)

(* ------------------------------- newsletter ----------------------------- *)
\* subscribers the store already holds when the service starts
Seeded(i) == [id |-> 0 - i, created_at |-> 0 - i, email |-> S(5 + i, "seeded"),
              subscribed |-> TRUE]
SeedSizes == {0, batchSize + 1}

InitNewsletter ==
    /\ adminSecretKey = AdminSecret
    /\ transporter \in BOOLEAN
    /\ \E n \in SeedSizes :
          db = [t \in Tables |-> IF t = "newsletter_subscribers"
                                 THEN {Seeded(i) : i \in 1..n} ELSE {}]
    /\ bucket = {}
    /\ nextId = 1
    /\ resp = NoRequest
    /\ deletedIds = [t \in CrudTables |-> {}]
    /\ pristine = <<>>
    /\ listing = NoListing
    /\ subscribing = NoSubscribes
    /\ server = Listening
    /\ keepAlive = NotStarted
    /\ bulk = Idle
    /\ limiter = NoHits

\* what the provider may reject: nobody, one fresh address, the first or the
\* last seeded address, every address
Rejections ==
    {{}, {Email1}, {Seeded(1).email}, {Seeded(batchSize + 1).email},
     Emails \cup {Seeded(i).email : i \in 1..(batchSize + 1)}}

\* the conditions a send meets: a provider that rejects some addresses, a
\* provider that cannot be reached, a store call that fails
Conditions ==
    {[reachable |-> TRUE, rejects |-> r, f |-> 0] : r \in Rejections}
    \cup {[reachable |-> FALSE, rejects |-> {}, f |-> f] : f \in 0..1}
    \cup {[reachable |-> TRUE, rejects |-> {Email1}, f |-> f] : f \in 1..2}

Sends == {ASend, ATestSend, UntitledSend}

NextNewsletter ==
    \/ \E e \in Emails :
          /\ POST_subscribers_subscribe(NoCredential, [email |-> e], 0)
          /\ nextId' <= MaxSubscriberRows + 1
    \/ \E e \in Emails : POST_subscribers_unsubscribe(NoCredential, [email |-> e], 0)
    \/ \E body \in Sends, c \in Conditions :
          /\ POST_newsletter_send(AdminViaBearer, body, c.reachable, c.rejects, c.f)
          /\ Cardinality(db'.newsletter_campaigns) <= MaxCampaigns
    \/ GET_newsletter_campaigns(AdminViaBearer, AQuery, 0)

SpecNewsletter == InitNewsletter /\ [][NextNewsletter]_vars

\* a bulk send that gets as far as the subscriber list, with the store answering
BulkSend(r) ==
    /\ r.route = "POST /newsletter/send" /\ r.ran /\ r.fault = 0
    /\ r.body.recipientType = "all"
    /\ ~Falsy(r.body.subject) /\ ~Falsy(r.body.htmlContent)
    /\ transporter /\ r.provider.reachable

\* the campaign rows a step adds whose counts and status are those of a send
\* to the subscribed addresses `to`, the provider rejecting `rejects`
Recorded(to, rejects) ==
    LET N == Cardinality(to)
        M == Cardinality(to \cap rejects)
        new == db'.newsletter_campaigns \ db.newsletter_campaigns
    IN  /\ Cardinality(new) = 1
        /\ \A c \in new : /\ c.sent_to_count = N - M
                          /\ c.failed_count = M
                          /\ c.status = IF M = 0 THEN "completed" ELSE "partial"

Subscribed == {r.email : r \in {x \in db.newsletter_subscribers : x.subscribed}}

C15_VerifyBeforeSend ==
    [][\A body \in Sends, c \in Conditions :
          (/\ ~Falsy(body.subject) /\ ~Falsy(body.htmlContent)
           /\ ~(transporter /\ c.reachable)
           /\ POST_newsletter_send(AdminViaBearer, body, c.reachable, c.rejects, c.f))
          => (resp'.status = 500 /\ resp'.attempted = {} /\ db' = db)]_vars

C15_UnreachableBulkSend ==
    /\ resp.route = "POST /newsletter/send" /\ resp.status = 500
    /\ resp.body.recipientType = "all"
    /\ transporter /\ ~resp.provider.reachable
    /\ Cardinality(Subscribed) > batchSize

\* C18: campaign rows are written once. A row is inserted only by a send that
\* is not a test send, passed the verification and attempted delivery to at
\* least one subscriber, and such a send inserts exactly one row when the store
\* takes it; a test send, a send whose verification fails and a send with no
\* subscriber (404) insert none; no operation changes or removes a row.
C18_CampaignsWriteOnce ==
    [][LET old == db.newsletter_campaigns
           new == db'.newsletter_campaigns
           delivering == /\ resp'.route = "POST /newsletter/send" /\ resp'.ran
                         /\ resp'.body.recipientType # "test"
                         /\ transporter /\ resp'.provider.reachable
                         /\ resp'.attempted # {}
       IN  /\ old \subseteq new
           /\ new # old => delivering
           /\ (delivering /\ resp'.fault = 0) =>
                 (Cardinality(new \ old) = 1 /\ resp'.status = 200)
           /\ (resp'.route = "POST /newsletter/send" /\ resp'.status = 404) => new = old]_vars

C18_TestSendAfterCampaigns ==
    /\ resp.route = "POST /newsletter/send" /\ resp.status = 200
    /\ resp.body.recipientType = "test" /\ resp.attempted = {Email2}
    /\ Cardinality(db.newsletter_campaigns) = MaxCampaigns

\* C19: every campaign row has status 'completed' or 'partial', never
\* 'failed'; the status is 'completed' exactly when failed_count = 0; a send
\* in which every one of the N deliveries fails is recorded all the same, with
\* sent_to_count = 0, failed_count = N and status 'partial'.
C19_CampaignStatus ==
    [][/\ \A c \in db'.newsletter_campaigns :
             /\ c.status \in {"completed", "partial"}
             /\ (c.status = "completed") <=> (c.failed_count = 0)
       /\ (/\ BulkSend(resp') /\ Subscribed # {}
           /\ Subscribed \subseteq resp'.provider.rejects)
          => \E c \in db'.newsletter_campaigns \ db.newsletter_campaigns :
                /\ c.sent_to_count = 0
                /\ c.failed_count = Cardinality(Subscribed)
                /\ c.status = "partial"]_vars

C19_EveryDeliveryFailed ==
    /\ resp.route = "POST /newsletter/send" /\ resp.status = 200 /\ resp.fault = 0
    /\ Cardinality(resp.attempted) > batchSize /\ resp.rejected = resp.attempted
    /\ \E c \in db.newsletter_campaigns :
          c.sent_to_count = 0 /\ c.failed_count > batchSize /\ c.status = "partial"

(* ------------------------------- recipients ----------------------------- *)
\* send requests with recipientType 'all', 'test', another value, or not sent
Recipients ==
    {SendBody(S(5, "Hello"), S(9, "<p>Hi</p>"), r, t) :
        r \in {"all", "test", "subscribers", UNDEF}, t \in {ABSENT, Email2}}

NextRecipients ==
    \/ \E e \in Emails :
          /\ POST_subscribers_subscribe(NoCredential, [email |-> e], 0)
          /\ nextId' <= MaxSubscriberRows + 1
    \/ \E e \in Emails : POST_subscribers_unsubscribe(NoCredential, [email |-> e], 0)
    \/ \E body \in Recipients, rejects \in {{}, {Email1}} :
          /\ POST_newsletter_send(AdminViaSecret, body, TRUE, rejects, 0)
          /\ Cardinality(db'.newsletter_campaigns) <= MaxCampaigns

SpecRecipients == InitCrud /\ [][NextRecipients]_vars

\* C29: a newsletter goes to the subscriber list only when recipientType is
\* 'all': a send request whose recipientType is missing or has another value
\* sends no email to the subscribers (a test send goes to testEmail only) and
\* writes no campaign row.
C29_OnlyAllReachesSubscribers ==
    [][(resp'.route = "POST /newsletter/send" /\ resp'.body.recipientType # "all")
       => /\ resp'.attempted \subseteq (IF resp'.body.recipientType = "test"
                                        THEN {resp'.body.testEmail} ELSE {})
          /\ db'.newsletter_campaigns = db.newsletter_campaigns]_vars

\* The part of C29 the code keeps: a send with recipientType 'test' goes to
\* testEmail only and writes no campaign row.
C29_TestSendReachesNoSubscriber ==
    [][(resp'.route = "POST /newsletter/send" /\ resp'.body.recipientType = "test")
       => /\ resp'.attempted \subseteq {resp'.body.testEmail}
          /\ db'.newsletter_campaigns = db.newsletter_campaigns]_vars

(* ------------------------------ validation ------------------------------ *)
\* the lengths around the bounds lo..hi
Lens(lo, hi) == {lo - 1, lo, hi, hi + 1}
Str(n) == S(n, "x")
\* a well-formed address has at least 6 characters
Addr(n) == S(n, IF n < 6 THEN "malformed" ELSE "x@y.zz")

ProjectBodies ==
    {ProjectBody(Str(n), Text1, Place1, UNDEF, NoImages) : n \in Lens(10, 200)}
    \cup {ProjectBody(Title1, Str(n), Place1, "completed", NoImages) : n \in Lens(20, 10000)}
    \cup {ProjectBody(Title1, Text1, Str(n), UNDEF, Images(1)) : n \in Lens(5, 200)}
    \cup {ProjectBody(Str(5), Text1, Str(201), UNDEF, NoImages),
          ProjectBody(ABSENT, Text1, Place1, UNDEF, NoImages),
          ProjectBody(Title1, Text1, Place1, "archived", NoImages)}

NewsBodies ==
    {NewsBody(Str(n), Text1, Title1, Place1, Date1, NoImages) : n \in Lens(10, 200)}
    \cup {NewsBody(Title1, Str(n), Title1, Place1, Date1, NoImages) : n \in Lens(20, 10000)}
    \cup {NewsBody(Title1, Text1, Str(n), Place1, Date1, NoImages) : n \in Lens(10, 200)}
    \cup {NewsBody(Title1, Text1, Title1, Str(n), Date1, NoImages) : n \in Lens(5, 200)}
    \cup {NewsBody(Title1, Text1, Title1, Place1, S(10, "malformed"), NoImages)}

ComplaintBodies ==
    {ComplaintBody(Str(n), Email1, Place1, Title1) : n \in Lens(2, 100)}
    \cup {ComplaintBody(Str(2), Addr(n), Place1, Title1) : n \in Lens(5, 100) \cup {6}}
    \cup {ComplaintBody(Str(2), Email1, Str(n), Title1) : n \in Lens(5, 200)}
    \cup {ComplaintBody(Str(2), Email1, Place1, Str(n)) : n \in Lens(10, 2000)}
    \cup {ComplaintBody(Str(2), S(20, "malformed"), Place1, Title1)}

SubscribeBodies == {[email |-> Addr(n)] : n \in Lens(5, 100) \cup {6}}

NextValidate ==
    \/ \E b \in ProjectBodies :
          POST_projects(AdminViaSecret, b, 0) /\ nextId' <= MaxValidateRows + 1
    \/ \E b \in NewsBodies :
          POST_news(AdminViaSecret, b, 0) /\ nextId' <= MaxValidateRows + 1
    \/ \E b \in ComplaintBodies :
          POST_complaints(NoCredential, b, 0) /\ nextId' <= MaxValidateRows + 1
    \/ \E b \in SubscribeBodies :
          POST_subscribers_subscribe(NoCredential, b, 0) /\ nextId' <= MaxValidateRows + 1

SpecValidate == InitCrud /\ [][NextValidate]_vars

\* the declared length bounds of the create schemas
Bounds ==
    ("POST /projects" :>
        [title |-> <<10, 200>>, description |-> <<20, 10000>>, location |-> <<5, 200>>])
    @@ ("POST /news" :>
        [title |-> <<10, 200>>, details |-> <<20, 10000>>, event |-> <<10, 200>>,
         location |-> <<5, 200>>])
    @@ ("POST /complaints" :>
        [name |-> <<2, 100>>, email |-> <<5, 100>>, subject |-> <<5, 200>>,
         description |-> <<10, 2000>>])
    @@ ("POST /subscribers/subscribe" :> [email |-> <<5, 100>>])

\* the length-bounded fields of request r whose length is out of bounds
OutOfBounds(r) ==
    {fld \in DOMAIN Bounds[r.route] :
        r.body[fld].len < Bounds[r.route][fld][1] \/ r.body[fld].len > Bounds[r.route][fld][2]}

\* the rest of the body is as the schema wants it: formats, enum, images
WellFormed(r) ==
    /\ \A fld \in DOMAIN r.body :
          \/ fld \in {"status", "images"}
          \/ r.body[fld].tag # "malformed"
    /\ "status" \in DOMAIN r.body => r.body.status \in {UNDEF, "in progress", "completed"}

C6_ComplaintNameBelowMinimum ==
    /\ resp.route = "POST /complaints" /\ resp.body.name.len = 1
    /\ resp.status = 400 /\ resp.errors = {"name"}

(* --------------------------- order of middleware ------------------------ *)
\* the routes registered with a gate and a validator
Guarded ==
    {"POST /projects", "PUT /projects/:id", "POST /news", "PUT /news/:id",
     "POST /complaints", "POST /subscribers/subscribe", "POST /subscribers/unsubscribe"}

\* whether the gate of the route of request r accepts r
gate(r) ==
    IF r.route \in AdminRoutes THEN authenticateServiceRole(r.hdrs)
    ELSE authenticatePublic(r.hdrs)

\* what the validator of the route of request r finds in the body of r
violations(r) ==
    CASE r.route = "POST /projects" -> createProjectSchema(r.body)
      [] r.route = "PUT /projects/:id" -> updateProjectSchema(r.body)
      [] r.route = "POST /news" -> createNewsSchema(r.body)
      [] r.route = "PUT /news/:id" -> updateNewsSchema(r.body)
      [] r.route = "POST /complaints" -> createComplaintSchema(r.body)
      [] r.route = "POST /subscribers/subscribe" -> subscribeSchema(r.body)
      [] r.route = "POST /subscribers/unsubscribe" -> unsubscribeSchema(r.body)

\* one body the validator accepts and one it refuses, for each guarded route
OrderProjects == {AProject, ProjectBody(Str(9), Text1, Place1, UNDEF, NoImages)}
OrderPatches == {APatch, ProjectBody(Str(201), ABSENT, ABSENT, UNDEF, NoImages)}
OrderNews == {ANews, NewsBody(Str(9), Text1, Title1, Place1, Date1, NoImages)}
OrderNewsPatches == {ANewsPatch, NewsBody(Str(201), ABSENT, ABSENT, ABSENT, ABSENT, NoImages)}
OrderComplaints == {AComplaint, ComplaintBody(Str(1), Email1, Place1, Title1)}
OrderEmails == {[email |-> Email1], [email |-> Addr(5)]}

NextOrder ==
    \/ \E h \in Credentials, b \in OrderProjects :
          POST_projects(h, b, 0) /\ nextId' <= MaxGateRows + 1
    \/ \E h \in Credentials, id \in KnownIds, b \in OrderPatches :
          PUT_projects_id(h, id, b, 0)
    \/ \E h \in Credentials, b \in OrderNews :
          POST_news(h, b, 0) /\ nextId' <= MaxGateRows + 1
    \/ \E h \in Credentials, id \in KnownIds, b \in OrderNewsPatches :
          PUT_news_id(h, id, b, 0)
    \/ \E h \in Credentials, b \in OrderComplaints :
          POST_complaints(h, b, 0) /\ nextId' <= MaxGateRows + 1
    \/ \E h \in Credentials, b \in OrderEmails :
          POST_subscribers_subscribe(h, b, 0) /\ nextId' <= MaxGateRows + 1
    \/ \E h \in Credentials, b \in OrderEmails :
          POST_subscribers_unsubscribe(h, b, 0)

SpecOrder == Init /\ [][NextOrder]_vars

\* C26: on every route with a gate and a validator the order is gate,
\* validator, controller: a request the gate refuses is answered 401 whether
\* its body is valid or not; the validator's 400 goes only to a caller the gate
\* accepted; the controller runs, and the store is written, only after both
\* have passed.
C26_GateThenValidatorThenController ==
    [][resp'.route \in Guarded =>
          /\ ~gate(resp') => (resp'.status = 401 /\ resp'.errors = {} /\ ~resp'.ran)
          /\ (gate(resp') /\ violations(resp') # {})
             => (resp'.status = 400 /\ resp'.errors = violations(resp') /\ ~resp'.ran)
          /\ resp'.errors # {} => gate(resp')
          /\ resp'.ran => (gate(resp') /\ violations(resp') = {})
          /\ ~resp'.ran => UNCHANGED <<db, bucket, nextId>>]_vars

\* a request refused by the gate whose body the validator would refuse too
C26_RefusedWithInvalidBody ==
    /\ resp.route = "POST /news" /\ ~gate(resp) /\ violations(resp) # {}
    /\ resp.status = 401

(* --------------------------------- lists -------------------------------- *)
Queries ==
    {Query(st, l, o) : st \in {UNDEF, "in progress", "completed", "archived"},
                       l \in {UNDEF} \cup {ToString(n) : n \in 1..MaxLimit},
                       o \in {UNDEF} \cup {ToString(n) : n \in 0..MaxLimit}}

NextList ==
    \/ \E b \in {AProject, BProject} :
          POST_projects(AdminViaSecret, b, 0) /\ nextId' <= MaxListRows + 1
    \/ \E id \in KnownIds : DELETE_projects_id(AdminViaSecret, id, 0)
    \/ \E q \in Queries, f \in 0..2 : GET_projects(NoCredential, q, f)

SpecList == InitCrud /\ [][NextList]_vars

\* the place of row r among `rows`, newest first
Rank(r, rows) == 1 + Cardinality({q \in rows : q.created_at > r.created_at})

ListTables == {"projects", "news", "complaints"}
ListQueries == {Query(st, l, UNDEF) : st \in {UNDEF, "completed"}, l \in {UNDEF, "1"}}

\* one list request, each of its two queries interleaved with inserts and
\* deletes of other requests
NextListing ==
    \/ \E t \in ListTables, q \in ListQueries : listCalled(t, q)
    \/ countSettled
    \/ dataSettled
    \/ listSent
    \/ \E b \in {AProject, BProject} :
          POST_projects(AdminViaSecret, b, 0) /\ nextId' <= MaxSnapshotRows + 1
    \/ POST_news(AdminViaSecret, ANews, 0) /\ nextId' <= MaxSnapshotRows + 1
    \/ POST_complaints(NoCredential, AComplaint, 0) /\ nextId' <= MaxSnapshotRows + 1
    \/ \E id \in KnownIds : DELETE_projects_id(AdminViaSecret, id, 0)
    \/ \E id \in KnownIds : DELETE_news_id(AdminViaSecret, id, 0)
    \/ \E id \in KnownIds : DELETE_complaints_id(AdminViaSecret, id, 0)

SpecListing == InitCrud /\ [][NextListing]_vars

\* the number of rows of table snapshot `rows` that match the request
MatchingIn(rows) == Cardinality(filtered(listing.table, rows, listing.query))

\* C30: every list response of getAllProjects, getAllNews and getAllComplaints
\* is a consistent snapshot whatever inserts and deletes run between the count
\* query and the data query: count is at least the number of rows in data, and
\* is the number of matching rows of one instant.
C30_ConsistentSnapshot ==
    listing.pc = "done" =>
        /\ listing.totalCount >= Len(listing.page)
        /\ \E rows \in listing.snapshots : listing.totalCount = MatchingIn(rows)

\* The part of C30 the code keeps: count is the number of matching rows at the
\* instant of the count query, and when no write comes between the two queries
\* count is at least the number of rows in data.
C30_ConsistentWhenUndisturbed ==
    listing.pc = "done" =>
        /\ \E rows \in listing.snapshots : listing.totalCount = MatchingIn(rows)
        /\ Cardinality(listing.snapshots) = 1 => listing.totalCount >= Len(listing.page)

(* -------------------------------- uploads ------------------------------- *)
Files == {File("a", "image/png"), File("b", "image/png"), File("b", "application/pdf")}
\* the multipart bodies: up to MaxFiles files
Multiparts == UNION {[1..k -> Files] : k \in 0..MaxFiles}

NextUpload ==
    \/ \E files \in Multiparts, failed \in SUBSET (1..MaxFiles) :
          /\ failed \subseteq DOMAIN files
          /\ POST_projects_upload(AdminViaSecret, files, failed)
          /\ nextId' <= MaxUploads + 1
    \/ \E files \in Multiparts, failed \in SUBSET (1..MaxFiles) :
          /\ failed \subseteq DOMAIN files
          /\ POST_news_upload(AdminViaSecret, files, failed)
          /\ nextId' <= MaxUploads + 1

SpecUpload == InitCrud /\ [][NextUpload]_vars

\* an authorised upload request one of whose files has a type off the allow-list
DisallowedUpload(r) ==
    /\ r.route \in {"POST /projects/upload", "POST /news/upload"}
    /\ r.status # 401
    /\ \E i \in DOMAIN r.body : r.body[i].mimetype \notin allowedFileTypes

\* C8: an upload request with a file whose declared MIME type is not in the
\* allow-list is answered 400, the upload controller does not run, and no
\* object of the request is written to the bucket.
C8_DisallowedTypeIs400 ==
    [][DisallowedUpload(resp') =>
          (resp'.status = 400 /\ ~resp'.ran /\ bucket' = bucket)]_vars

\* The part of C8 the code keeps: the controller does not run, nothing is stored.
C8_DisallowedTypeStoresNothing ==
    [][DisallowedUpload(resp') =>
          (resp'.status >= 400 /\ ~resp'.ran /\ bucket' = bucket)]_vars

\* C25: in a multi-file upload each file is uploaded on its own: when the
\* bucket refuses one of them the request is answered 400, nothing that was
\* stored is deleted, and every file of the request whose own upload succeeded,
\* before or after the refused one, is in the bucket afterwards.
C25_NoRollback ==
    [][\A failed \in SUBSET (1..MaxFiles) : \A route \in {"projects", "news"} :
          LET files == resp'.body
          IN  (/\ resp'.route = IF route = "projects" THEN "POST /projects/upload"
                                ELSE "POST /news/upload"
               /\ failed # {} /\ failed \subseteq DOMAIN files
               /\ upload(files) = "none"
               /\ IF route = "projects"
                  THEN POST_projects_upload(AdminViaSecret, files, failed)
                  ELSE POST_news_upload(AdminViaSecret, files, failed))
              => /\ resp'.status = 400 /\ resp'.ran
                 /\ bucket \subseteq bucket'
                 /\ \A i \in (DOMAIN files) \ failed :
                       <<route, nextId, files[i].originalname>> \in bucket']_vars

\* a request of two files answered 400 with the first refused and the second
\* stored
C25_SecondStoredAfterFirstRefused ==
    /\ resp.route = "POST /projects/upload" /\ resp.ran /\ resp.status = 400
    /\ Len(resp.body) = 2
    /\ resp.body[1].originalname # resp.body[2].originalname
    /\ <<"projects", nextId - 1, resp.body[1].originalname>> \notin bucket
    /\ <<"projects", nextId - 1, resp.body[2].originalname>> \in bucket

(* --------------------------------- limiter ------------------------------ *)
Paths == {<<>>, <<"health">>, <<"api", "docs">>, <<"api", "v1", "nowhere">>, <<"apiary">>}

NextLimiter ==
    \/ \E c \in Clients, path \in Paths, landing \in BOOLEAN : app(c, path, landing)
    \/ \E c \in Clients : windowElapsed(c)

SpecLimiter == Init /\ [][NextLimiter]_vars

\* C14: the limiter covers every request whatever its path, /health and /
\* included: once a client has made maxRequests requests in a window, every
\* further request of that client in the window is answered 429 and reaches
\* no handler.
C14_EveryPathLimited ==
    [][\A c \in Clients, path \in Paths, landing \in BOOLEAN :
          (app(c, path, landing) /\ limiter[c].seen >= maxRequests)
          => (resp'.status = 429 /\ ~resp'.ran)]_vars

\* The part of C14 the code keeps: requests under /api/ are counted, and after
\* maxRequests of them the client's further requests under /api/ are answered
\* 429 and reach no handler; no other path is counted or answered 429.
C14_ApiPathsLimited ==
    [][\A c \in Clients, path \in Paths, landing \in BOOLEAN :
          app(c, path, landing)
          => IF mounted(path, <<"api">>)
             THEN (limiter[c].hits >= maxRequests) <=> (resp'.status = 429 /\ ~resp'.ran)
             ELSE resp'.status # 429 /\ limiter'[c].hits = limiter[c].hits]_vars

(* ------------------------------ bulk sender ----------------------------- *)
Twice == <<Email1, Email1>>
RecipientLists ==
    {<<>>, Twice} \cup {[k \in 1..n |-> Seeded(k).email] : n \in {batchSize + 1, 2 * batchSize}}

\* the sends outstanding settle in any order; the orders followed are those
\* that take the first or the last of the positions outstanding
Ends(pending) == {k \in pending : \A j \in pending : j >= k} \cup
                 {k \in pending : \A j \in pending : j <= k}

NextBulk ==
    \/ \E recipients \in RecipientLists, rejects \in Rejections :
          sendBulkEmailsCalled(recipients, rejects)
    \/ \E k \in Ends(bulk.pending) : sendSettled(k)
    \/ delayElapsed

SpecBulk == Init /\ [][NextBulk]_vars

\* the positions whose send has started and has settled
Settled(b) == {k \in DOMAIN b.attempts : b.attempts[k] > 0 /\ k \notin b.pending}
\* the positions whose send fails, were it made
Rejected(b) == {k \in DOMAIN b.recipients : ~sendEmail(b.recipients[k], b.rejects)}

\* C16: sendBulkEmails keeps the failure of one recipient to that recipient:
\* whatever sends are rejected, every recipient is attempted exactly once, a
\* failure stops neither its batch nor a later one, the run returns rather
\* than throws, and the result has success + failed = the number of
\* recipients with failed = the number of rejected sends.
C16_FailuresIsolated ==
    /\ bulk.pc \in {"idle", "batch", "delay", "returned"}
    /\ bulk.pc = "batch" => bulk.pending # {}
    /\ \A k \in DOMAIN bulk.attempts : bulk.attempts[k] <= 1
    /\ bulk.results.failed = Cardinality(Settled(bulk) \cap Rejected(bulk))
    /\ bulk.results.success = Cardinality(Settled(bulk) \ Rejected(bulk))
    /\ bulk.pc = "returned" =>
          /\ Settled(bulk) = DOMAIN bulk.recipients
          /\ bulk.results.success + bulk.results.failed = Len(bulk.recipients)
          /\ bulk.results.failed = Cardinality(Rejected(bulk))
          /\ bulk.results = sendBulkEmails(bulk.recipients, bulk.rejects)

C16_FailureInFirstBatch ==
    /\ bulk.pc = "returned" /\ Len(bulk.recipients) = batchSize + 1
    /\ bulk.rejects = {Seeded(1).email}
    /\ bulk.results.failed = 1 /\ bulk.results.success = batchSize

\* C17: a run has at most one batch in flight and at most batchSize sends
\* outstanding; no send of the next batch starts before every send of the
\* batch before it has settled and the delay between them has elapsed; the
\* delay is taken between two batches only, not after the last; no send is
\* made a second time.
C17_OneBatchAtATime ==
    [][/\ Cardinality(bulk'.pending) <= batchSize
       /\ bulk'.pending \subseteq slice(bulk'.recipients, bulk'.i)
       /\ bulk'.pc = "delay" =>
             (bulk'.pending = {} /\ bulk'.i + batchSize < Len(bulk'.recipients))
       /\ (bulk'.pc = "batch" /\ bulk'.i = bulk.i + batchSize) =>
             (bulk.pc = "delay" /\ bulk.pending = {} /\ bulk'.recipients = bulk.recipients)
       /\ (bulk.pc = "batch" /\ bulk.pending # {}) =>
             (bulk'.pc = "batch" => bulk'.i = bulk.i /\ bulk'.pending \subseteq bulk.pending)
       /\ \A k \in DOMAIN bulk'.attempts : bulk'.attempts[k] <= 1]_vars

C17_SecondBatchInFlight ==
    /\ bulk.pc = "batch" /\ bulk.i = batchSize
    /\ Cardinality(bulk.pending) = batchSize
    /\ bulk.results.failed > 0

(* ------------------------------- keep-alive ----------------------------- *)
NextKeepAlive ==
    \/ start
    \/ stop
    \/ cronFires
    \/ timerFires
    \/ \E fetched \in Fetched : healthSettled(fetched)
    \/ \E selected \in Selected : selectSettled(selected)

SpecKeepAlive == Init /\ [][NextKeepAlive]_vars

\* a firing has ended
Fired == keepAlive.firings > 0 /\ keepAlive.pc = "idle"

\* C20: the two checks of a firing are independent: in every firing the read
\* of the store is issued whether the health GET succeeded or failed, and the
\* outcome of each check is logged on its own.
C20_ChecksIndependent ==
    Fired =>
        /\ keepAlive.issued = {"GET /health", "select projects"}
        /\ keepAlive.log \cap {"Server ping", "Server ping error"} # {}
        /\ keepAlive.log \cap {"Database ping", "Database ping error"} # {}

\* What the code does instead: the read is issued only after a health GET
\* that succeeded; a check that was made is logged on its own.
C20_StoreReadAfterHealthy ==
    Fired =>
        /\ ("select projects" \in keepAlive.issued) <=> ("Server ping" \in keepAlive.log)
        /\ keepAlive.log \cap {"Server ping", "Server ping error"} # {}
        /\ ("select projects" \in keepAlive.issued) <=>
              (keepAlive.log \cap {"Database ping", "Database ping error"} # {})

\* C21: a keep-alive firing never passes a failure on: whatever the health
\* GET and the read of the store do (error response, thrown exception, store
\* error), performKeepAlive completes without rejecting, the schedule is left
\* as it was, and the next scheduled firing still begins.
C21_FiringNeverPropagates ==
    [][/\ keepAlive'.pc \in {"idle", "pingServer", "pingDatabase"}
       /\ (keepAlive.pc # "idle" /\ keepAlive'.pc = "idle") =>
             /\ keepAlive'.pingTask = keepAlive.pingTask
             /\ keepAlive'.timer = keepAlive.timer
             /\ keepAlive'.failures \in {keepAlive.failures, keepAlive.failures + 1}
       /\ (/\ keepAlive.failures > 0 /\ keepAlive.pc = "idle"
           /\ keepAlive.pingTask /\ keepAlive.firings < MaxFirings)
          => ENABLED cronFires]_vars

C21_FiringAfterFailure ==
    /\ keepAlive.failures > 0 /\ keepAlive.firings > keepAlive.failures
    /\ keepAlive.pc = "pingDatabase" /\ keepAlive.pingTask
    /\ keepAlive.log = {"Server ping"}

\* stop() has returned
Stopped == ~keepAlive.pingTask /\ keepAlive # NotStarted

\* C22: once stop() has returned no further firing begins, neither a
\* scheduled one nor the first, delayed one, however long after start() the
\* stop came.
C22_NoFiringAfterStop ==
    [][Stopped => keepAlive'.firings = keepAlive.firings]_vars

\* The part of C22 the code keeps: after stop() the cron task fires no more;
\* the one firing that can still begin is that of the timer of start().
C22_OnlyTheTimerAfterStop ==
    [][(Stopped /\ keepAlive'.firings # keepAlive.firings)
          => (keepAlive.timer /\ ~keepAlive'.timer)]_vars

(* -------------------------------- shutdown ------------------------------ *)
NextShutdown ==
    \/ start /\ server.state = "listening"
    \/ accept
    \/ connectionEnds
    \/ \E name \in {"SIGTERM", "SIGINT"} : signal(name)
    \/ unhandledRejection
    \/ uncaughtException

SpecShutdown == Init /\ [][NextShutdown]_vars

Fatal == {"unhandledRejection", "uncaughtException"}

\* C24: after an unhandled rejection and after an uncaught exception alike the
\* server accepts no new connection, and the process exits with a non-zero
\* code only once the close of the server has completed.
C24_CloseThenExit ==
    server.event \cap Fatal # {} =>
        /\ server.state # "listening"
        /\ server.state = "exited" => (server.closed /\ server.code # 0)

\* The part of C24 the code keeps: an unhandled rejection with no other signal
\* or failure next to it.
C24_RejectionClosesThenExits ==
    server.event = {"unhandledRejection"} =>
        /\ server.state # "listening"
        /\ ~keepAlive.pingTask
        /\ server.state = "exited" => (server.closed /\ server.code = 1)

====
